---- MODULE Spec2Model ----
(***************************************************************************)
(* Orpheus dispatch engine: Dispatcher.dispatch / Dispatcher.dispatchAll   *)
(* driving Executors and logging to the SQLiteStore event sink.            *)
(*                                                                         *)
(* One action is one run of JavaScript between two awaits.  A call of      *)
(* SQLiteStore.logEvent inserts its row synchronously (better-sqlite3) and *)
(* hands back a promise, so the insert belongs to the step that makes the  *)
(* call and the continuation after the await is the next step.             *)
(***************************************************************************)
EXTENDS Integers, Sequences, FiniteSets, TLC

VARIABLES
    executors,      \* Dispatcher.executors: the Map's keys in insertion order
    options,        \* Dispatcher.options: retryAttempts, retryDelayMs
    tasks,          \* the Task objects
    sink,           \* rows of the events table, in insertion order
    sinkFailures,   \* how many logEvent calls have failed so far
    frames,         \* one activation of dispatch per entry of the batch
    call,           \* the activation of dispatchAll
    clock,          \* what new Date() reads, in milliseconds
    orpheus,        \* the fields of the Orpheus instance: memory, dispatcher
    outcomes,       \* the ways in which execute() of the registered executors settles
    adapters        \* the call in progress on each backend adapter, or its result

vars == <<executors, options, tasks, sink, sinkFailures, frames, call, clock, orpheus,
          outcomes, adapters>>

\* what no step of the Dispatcher touches
outside == <<clock, orpheus, outcomes, adapters>>

-----------------------------------------------------------------------------
(* Bounds of the model *)

MaxRetry == 2           \* retryAttempts ranges over 1..MaxRetry
MaxPlanLen == 2         \* fallbackExecutors has at most this many entries
MaxBatch == 2           \* dispatchAll gets at most this many tasks
MaxWork == 4            \* retryAttempts * (plan entries of the batch) * (batch length)
MaxSinkFailures == 1    \* at most this many logEvent calls fail in a run
MaxRows == 3            \* the store alone: at most this many rows are logged
MaxClock == 1           \* the store alone: the clock reads 0..MaxClock
MaxPlanned == 3         \* the planner alone: at most this many tasks are built
MaxRegistrations == 1   \* executors registered while a dispatch is under way

(* Program constants *)

DefaultRetryDelayMs == 1000

ExecutorTypes == {"codex", "sonnet", "gemini"}

None == "undefined"

\* SQL NULL, and the JavaScript null a row hands back for it
Null == "null"

-----------------------------------------------------------------------------
(* Values *)

NoError == [kind |-> "undefined"]
ReturnedError(e, n) == [kind |-> "result.error", executor |-> e, attempts |-> n]
ThrownError(e, n) == [kind |-> "thrown", executor |-> e, attempts |-> n]
SinkError == [kind |-> "sink"]
\* the empty string: the message of `new Error()`, or an error field set to ''
EmptyMessage == [kind |-> "empty string"]
AllFailedError == [kind |-> "All executors failed"]

NoResult == [executor |-> None, success |-> FALSE, error |-> NoError, durationMs |-> 0,
             content |-> ""]

NoReturn == [kind |-> "none"]

RECURSIVE SeqsUpTo(_, _)
SeqsUpTo(S, n) ==
    IF n = 0 THEN {<<>>}
    ELSE LET shorter == SeqsUpTo(S, n - 1)
         IN  shorter \cup {Append(s, x) : s \in {t \in shorter : Len(t) = n - 1}, x \in S}

Range(s) == {s[i] : i \in 1..Len(s)}

-----------------------------------------------------------------------------
(* Inputs: the tasks handed to the dispatcher, the registry, the options *)

Plans == SeqsUpTo(ExecutorTypes, MaxPlanLen)

\* the order in which the CLI and the pipeline test register the executors
RegistrationOrder == <<"codex", "sonnet", "gemini">>

RECURSIVE SubSeqs(_)
SubSeqs(s) ==
    IF s = <<>> THEN {<<>>}
    ELSE LET rest == SubSeqs(Tail(s))
         IN  rest \cup {<<Head(s)>> \o r : r \in rest}

\* the Map handed to the Dispatcher: any of the executors, registered in that order
Registries == SubSeqs(RegistrationOrder)

\* A Task as Planner.createTask or any caller builds it; status starts 'pending'.
\* The text of the prompt is not looked at; the id is set per task.
NewTasks ==
    [id : {"uuid"},
     prompt : {"prompt"},
     systemPrompt : {None},
     preferredExecutor : ExecutorTypes \cup {None},
     fallbackExecutors : Plans,
     priority : {"normal"},
     status : {"pending"},
     parentId : {None},
     metadata : {[source |-> "caller"]},
     updatedAt : {0}]

\* (mutant) a backend that is listed twice is kept once, at its first position
GetExecutorOrderDistinct(task, registry) ==
    LET list == task.fallbackExecutors
        first == SelectSeq([p \in DOMAIN list |-> p],
                           LAMBDA p : \A q \in 1..(p - 1) : list[q] # list[p])
    IN  IF Len(list) > 0 THEN [k \in DOMAIN first |-> list[first[k]]]
        ELSE IF task.preferredExecutor # None THEN <<task.preferredExecutor>>
        ELSE registry

\* (mutant) the preferred executor is tried first, the fallback list after it
GetExecutorOrderPreferredFirst(task, registry) ==
    IF Len(task.fallbackExecutors) > 0
    THEN IF task.preferredExecutor # None
         THEN <<task.preferredExecutor>> \o task.fallbackExecutors
         ELSE task.fallbackExecutors
    ELSE IF task.preferredExecutor # None THEN <<task.preferredExecutor>>
    ELSE registry

\* Dispatcher.getExecutorOrder
GetExecutorOrder(task, registry) ==
    IF Len(task.fallbackExecutors) > 0 THEN task.fallbackExecutors
    ELSE IF task.preferredExecutor # None THEN <<task.preferredExecutor>>
    ELSE registry

\* the batches handed to dispatchAll: task ids are labels, so a batch names its
\* tasks in order of first occurrence; a task may occur more than once
IsBatch(b, n) ==
    /\ Len(b) >= 1
    /\ Range(b) = 1..n
    /\ \A i \in 1..Len(b) : \A k \in 1..(b[i] - 1) : \E j \in 1..(i - 1) : b[j] = k

Batches(n) == {b \in SeqsUpTo(1..n, MaxBatch) : IsBatch(b, n)}

RECURSIVE SumLen(_, _, _)
SumLen(b, ts, registry) ==
    IF b = <<>> THEN 0
    ELSE Len(GetExecutorOrder(ts[Head(b)], registry)) + SumLen(Tail(b), ts, registry)

\* the size of a run: tries the batch can make at most
Work(b, ts, registry, R) == R * SumLen(b, ts, registry)

-----------------------------------------------------------------------------
(* Frames: the local state of one activation of dispatch *)

\* `executor` before the loop has looked one up
NoExecutor == [type |-> None, object |-> 0]

IdleFrame(t) ==
    [pc |-> "idle", task |-> t, order |-> <<>>, idx |-> 0, attempt |-> 0,
     attempts |-> 0, lastError |-> NoError, rej |-> FALSE, result |-> NoResult,
     delayMs |-> 0, ret |-> NoReturn, executor |-> NoExecutor,
     \* history, not program state
     starts |-> 0, appendFailures |-> 0, probes |-> 0, passed |-> 0, execs |-> 0,
     firstSuccess |-> <<0, 0, 0>>,
     \* history: the events this dispatch has logged, the plan positions it skipped,
     \* the events it has handed to logEvent, logged or not
     log |-> <<>>, skips |-> {}, emitted |-> <<>>,
     \* history: the last error a try of this dispatch ended with
     observed |-> NoError]

\* task.id of the t-th task: Planner.createTask draws a fresh UUID
TaskId(t) == "task_" \o ToString(t)

\* the argument of logEvent as dispatch builds it: no id, no timestamp
Event(type, t, e, payload) ==
    [type |-> type, taskId |-> TaskId(t), executorType |-> e, payload |-> payload]

\* the row logEvent binds to its INSERT: `?? null` for the optional columns, the
\* timestamp read from the clock (the 24-character ISO text of toISOString
\* compares in SQLite as the millisecond count does)
Row(ev) ==
    [type |-> ev.type,
     timestamp |-> clock,
     task_id |-> IF ev.taskId = None THEN Null ELSE ev.taskId,
     executor_type |-> IF ev.executorType = None THEN Null ELSE ev.executorType,
     payload |-> ev.payload]

\* SQLiteStore.rowToEvent: task_id NULL comes back as undefined, executor_type
\* is only cast, so NULL comes back as null
RowToEvent(row) ==
    [type |-> row.type,
     timestamp |-> row.timestamp,
     taskId |-> IF row.task_id = Null THEN None ELSE row.task_id,
     executorType |-> row.executor_type,
     payload |-> row.payload]

\* (mutant) a row equal to the last one is coalesced with it
LogEventCoalescing(ev, ok) ==
    /\ ok \/ sinkFailures < MaxSinkFailures
    /\ sink' = IF ok /\ (sink = <<>> \/ sink[Len(sink)] # Row(ev))
               THEN Append(sink, Row(ev)) ELSE sink
    /\ sinkFailures' = IF ok THEN sinkFailures ELSE sinkFailures + 1

\* SQLiteStore.logEvent: the INSERT either happens or throws
LogEvent(ev, ok) ==
    /\ ok \/ sinkFailures < MaxSinkFailures
    /\ sink' = IF ok THEN Append(sink, Row(ev)) ELSE sink
    /\ sinkFailures' = IF ok THEN sinkFailures ELSE sinkFailures + 1

\* history: the events a dispatch has handed to logEvent and the store has kept
Logged(log, ev, ok) == IF ok THEN Append(log, ev) ELSE log

NoLogEvent(ok) ==
    /\ ok
    /\ UNCHANGED <<sink, sinkFailures>>

RECURSIVE OrderByTimestampTiesReversed(_)
\* (mutant) rows of equal timestamp come back newest first
OrderByTimestampTiesReversed(rows) ==
    IF rows = <<>> THEN <<>>
    ELSE LET last == rows[Len(rows)]
             before == OrderByTimestampTiesReversed(SubSeq(rows, 1, Len(rows) - 1))
             keep == SelectSeq(before, LAMBDA r : r.timestamp < last.timestamp)
             after == SelectSeq(before, LAMBDA r : r.timestamp >= last.timestamp)
         IN  keep \o <<last>> \o after

RECURSIVE OrderByTimestamp(_)
\* ORDER BY timestamp ASC over rows that arrive in rowid order: SQLite hands back
\* rows of equal timestamp in the order in which they arrived
OrderByTimestamp(rows) ==
    IF rows = <<>> THEN <<>>
    ELSE LET last == rows[Len(rows)]
             before == OrderByTimestamp(SubSeq(rows, 1, Len(rows) - 1))
             keep == SelectSeq(before, LAMBDA r : r.timestamp <= last.timestamp)
             after == SelectSeq(before, LAMBDA r : r.timestamp > last.timestamp)
         IN  keep \o <<last>> \o after

RECURSIVE RowsToEvents(_)
\* rows.map(this.rowToEvent)
RowsToEvents(rows) ==
    IF rows = <<>> THEN <<>>
    ELSE <<RowToEvent(Head(rows))>> \o RowsToEvents(Tail(rows))

\* SQLiteStore.getTaskHistory
GetTaskHistory(taskId) ==
    RowsToEvents(OrderByTimestamp(SelectSeq(sink, LAMBDA row : row.task_id = taskId)))

RECURSIVE FirstRegistered(_, _, _)
\* the for-of loop's `continue` on an unregistered entry: the first position at or
\* after `from` whose executor is in the Map, Len(order) + 1 when there is none
FirstRegistered(order, from, registry) ==
    IF from > Len(order) THEN Len(order) + 1
    ELSE IF order[from] \in Range(registry) THEN from
    ELSE FirstRegistered(order, from + 1, registry)

\* the ExecutorResult built when every executor failed
FailureResult(task, lastError) ==
    [executor |-> IF task.preferredExecutor # None THEN task.preferredExecutor ELSE "sonnet",
     success |-> FALSE,
     content |-> "",
     error |-> IF lastError # NoError THEN lastError ELSE AllFailedError,
     durationMs |-> 0]

\* (mutant) a task that fails is also given the default executor as its preferred one
SetStatusAndPreferred(t, s) ==
    tasks' = [tasks EXCEPT ![t].status = s, ![t].updatedAt = clock,
                           ![t].preferredExecutor = IF s = "failed" THEN "sonnet" ELSE @]

\* task.status = s; task.updatedAt = new Date()
SetStatus(t, s) == tasks' = [tasks EXCEPT ![t].status = s, ![t].updatedAt = clock]

-----------------------------------------------------------------------------
(* Init: a Dispatcher has been constructed and the tasks exist *)

NoCall == [mode |-> "none", tasks |-> <<>>, state |-> "none", i |-> 0, results |-> <<>>,
           \* history: the entries in the order in which their dispatch returned
           finished |-> <<>>]

\* config.planner.defaultExecutor unless the caller sets it
DefaultExecutor == "sonnet"

\* the fields of an Orpheus instance after its constructor
NewOrpheus ==
    [memory |-> Null, dispatcher |-> Null, parallelExecution |-> FALSE,
     defaultExecutor |-> DefaultExecutor,
     \* the values of the executors Map: per key the number of the Executor object
     \* last set under it, 0 for the object the run began with
     objects |-> [e \in ExecutorTypes |-> 0],
     \* history: the last call of execute, what was registered then and its error
     executed |-> [called |-> FALSE, prompt |-> {}, memory |-> Null, executors |-> <<>>,
                   error |-> NoError]]

\* no adapter object is part of the run: the executors are given by `outcomes`
NoAdapters == <<>>

\* executors whose failures always carry a message
MessageOutcomes == {"success", "failure", "throws"}

\* how execute() can settle: a successful outcome; a failed outcome whose optional
\* error field holds a message, the empty string or nothing; a throw whose
\* message is a text or the empty string
Outcomes == MessageOutcomes \cup {"failure_empty", "failure_undefined", "throws_empty"}

InitDispatcher ==
    /\ executors \in Registries
    /\ options \in [retryAttempts : 1..MaxRetry, retryDelayMs : {DefaultRetryDelayMs}]
    /\ tasks \in {[t \in 1..n |-> [task EXCEPT !.id = TaskId(t)]] :
                      n \in 1..MaxBatch, task \in NewTasks}
    /\ \E b \in Batches(Len(tasks)) :
          Work(b, tasks, executors, options.retryAttempts) * Len(b) <= MaxWork
    /\ sink = <<>>
    /\ sinkFailures = 0
    /\ frames = <<>>
    /\ call = NoCall
    /\ clock = 0
    /\ orpheus = NewOrpheus
    /\ adapters = NoAdapters

\* the executors of the run report every failure with a message
Init ==
    /\ InitDispatcher
    /\ outcomes = MessageOutcomes

\* one task, every executor registered, and executors that may fail without a
\* message
InitAnyMessage ==
    /\ InitDispatcher
    /\ Len(tasks) = 1
    /\ executors = RegistrationOrder
    /\ outcomes = Outcomes

-----------------------------------------------------------------------------
(* Dispatcher.dispatch, one step per run between awaits *)

\* dispatch(task) up to its first await: status = 'running', logEvent(task_started)
Failures(ok) == IF ok THEN 0 ELSE 1

StartedEvent(t) == Event("task_started", t, None, [prompt |-> "prompt"])

Started(f, ok) ==
    [IdleFrame(f.task) EXCEPT !.pc = "await_started", !.rej = ~ok,
                              !.starts = f.starts + 1, !.appendFailures = Failures(ok),
                              !.log = Logged(<<>>, StartedEvent(f.task), ok),
                              !.emitted = <<StartedEvent(f.task)>>]

\* (mutant) the Dispatcher looks the executor up in a copy of the Map that it
\* took when it was built
MapGetAtConstruction(e) == [type |-> e, object |-> 0]

\* this.executors.get(executorType), for a key the Map has
MapGet(e) == [type |-> e, object |-> orpheus.objects[e]]

\* the rest of the outer for-of loop from plan position `from` on, up to the next
\* await: either isAvailable() of the next registered entry is called, or the loop
\* is over and the failure path runs up to logEvent(task_failed)
ContinueOuter(i, f, from, ok) ==
    LET j == FirstRegistered(f.order, from, executors)
        t == f.task
        failure == FailureResult(tasks[t], f.lastError)
        ev == Event("task_failed", t, None,
                    [error |-> failure.error, attempts |-> f.attempts])
    IN  IF j <= Len(f.order)
        THEN /\ frames' = [frames EXCEPT ![i] =
                    [f EXCEPT !.pc = "await_available", !.idx = j, !.attempt = 0,
                              !.executor = MapGet(f.order[j]),
                              !.probes = @ + 1]]
             /\ NoLogEvent(ok)
             /\ UNCHANGED tasks
        ELSE /\ SetStatus(t, "failed")
             /\ LogEvent(ev, ok)
             /\ frames' = [frames EXCEPT ![i] =
                    [f EXCEPT !.pc = "await_failed", !.idx = j, !.attempt = 0,
                              !.rej = ~ok, !.result = failure,
                              !.appendFailures = @ + Failures(ok),
                              !.log = Logged(@, ev, ok), !.emitted = Append(@, ev)]]

\* (mutant) the try is logged but not counted
BeginAttemptNoCount(i, f, attempt, ok) ==
    LET ev == Event("executor_called", f.task, f.order[f.idx], [attempt |-> attempt])
    IN  /\ LogEvent(ev, ok)
        /\ frames' = [frames EXCEPT ![i] =
                [f EXCEPT !.pc = "await_called", !.attempt = attempt,
                          !.rej = ~ok, !.delayMs = 0,
                          !.appendFailures = @ + Failures(ok),
                          !.log = Logged(@, ev, ok), !.emitted = Append(@, ev)]]
        /\ UNCHANGED tasks

\* (mutant) executor_called carries the total of the attempts
BeginAttemptTotalNumber(i, f, attempt, ok) ==
    LET ev == Event("executor_called", f.task, f.order[f.idx], [attempt |-> f.attempts + 1])
    IN  /\ LogEvent(ev, ok)
        /\ frames' = [frames EXCEPT ![i] =
                [f EXCEPT !.pc = "await_called", !.attempt = attempt,
                          !.attempts = @ + 1, !.rej = ~ok, !.delayMs = 0,
                          !.appendFailures = @ + Failures(ok),
                          !.log = Logged(@, ev, ok), !.emitted = Append(@, ev)]]
        /\ UNCHANGED tasks

\* (mutant) executor_called names the first entry of the plan
BeginAttemptNamesFirst(i, f, attempt, ok) ==
    LET ev == Event("executor_called", f.task, f.order[1], [attempt |-> attempt])
    IN  /\ LogEvent(ev, ok)
        /\ frames' = [frames EXCEPT ![i] =
                [f EXCEPT !.pc = "await_called", !.attempt = attempt,
                          !.attempts = @ + 1, !.rej = ~ok, !.delayMs = 0,
                          !.appendFailures = @ + Failures(ok),
                          !.log = Logged(@, ev, ok), !.emitted = Append(@, ev)]]
        /\ UNCHANGED tasks

\* the top of the retry loop body: attempts++, logEvent(executor_called)
BeginAttempt(i, f, attempt, ok) ==
    LET ev == Event("executor_called", f.task, f.order[f.idx], [attempt |-> attempt])
    IN  /\ LogEvent(ev, ok)
        /\ frames' = [frames EXCEPT ![i] =
                [f EXCEPT !.pc = "await_called", !.attempt = attempt,
                          !.attempts = @ + 1, !.rej = ~ok, !.delayMs = 0,
                          !.appendFailures = @ + Failures(ok),
                          !.log = Logged(@, ev, ok), !.emitted = Append(@, ev)]]
        /\ UNCHANGED tasks

\* (mutant) the delay test off by one: the last try of a backend is never made
AfterAttemptOffByOne(i, f, ok) ==
    IF f.attempt + 1 < options.retryAttempts
    THEN /\ frames' = [frames EXCEPT ![i] =
                [f EXCEPT !.pc = "await_delay",
                          !.delayMs = options.retryDelayMs * f.attempt]]
         /\ NoLogEvent(ok)
         /\ UNCHANGED tasks
    ELSE ContinueOuter(i, f, f.idx + 1, ok)

\* (mutant) the backend is probed again before every retry
AfterAttemptProbesAgain(i, f, ok) ==
    IF f.attempt < options.retryAttempts
    THEN /\ frames' = [frames EXCEPT ![i] =
                [f EXCEPT !.pc = "await_available", !.probes = @ + 1]]
         /\ NoLogEvent(ok)
         /\ UNCHANGED tasks
    ELSE ContinueOuter(i, f, f.idx + 1, ok)

\* after the try/catch of one attempt: back off, or leave the retry loop
AfterAttempt(i, f, ok) ==
    IF f.attempt < options.retryAttempts
    THEN /\ frames' = [frames EXCEPT ![i] =
                [f EXCEPT !.pc = "await_delay",
                          !.delayMs = options.retryDelayMs * f.attempt]]
         /\ NoLogEvent(ok)
         /\ UNCHANGED tasks
    ELSE ContinueOuter(i, f, f.idx + 1, ok)

\* an error leaves dispatch: its promise is rejected
Rejected(i, f) ==
    /\ frames' = [frames EXCEPT ![i] = [f EXCEPT !.pc = "rejected", !.ret = [kind |-> "rejected"]]]
    /\ UNCHANGED <<tasks, sink, sinkFailures>>

\* (mutant) no try/catch around the attempt: the error leaves dispatch
CatchAttemptRethrow(i, f, err, ok) ==
    ok /\ Rejected(i, f)

\* (mutant) the catch block does not keep the message
CatchAttemptForgets(i, f, err, ok) ==
    AfterAttempt(i, [f EXCEPT !.rej = FALSE], ok)

\* the catch block of an attempt: remember the message, go on with the retry loop
CatchAttempt(i, f, err, ok) ==
    AfterAttempt(i, [f EXCEPT !.lastError = err, !.rej = FALSE, !.observed = err], ok)

DispatchResult(f, result) ==
    [kind |-> "DispatchResult", task |-> f.task, result |-> result, attempts |-> f.attempts]

\* (mutant) the values are kept in the order in which the promises are fulfilled
PromiseAllStoreInArrivalOrder(values, i, v) ==
    LET free == {k \in DOMAIN values : values[k] = NoReturn}
        first == CHOOSE k \in free : \A m \in free : k <= m
    IN  IF free = {} THEN values ELSE [values EXCEPT ![first] = v]

\* Promise.all keeps the value of its i-th promise at index i
PromiseAllStore(values, i, v) == [values EXCEPT ![i] = v]

\* (mutant) the return is missing: the promise of this dispatch stays pending
NeverFulfilled(i, f, result) ==
    /\ f.pc = "unreachable"
    /\ UNCHANGED <<frames, call, tasks, sink, sinkFailures>>

\* `return { task, result, attempts }`: the promise of this dispatch is fulfilled,
\* and in concurrent mode Promise.all takes the value
Returned(i, f, result) ==
    /\ frames' = [frames EXCEPT ![i] =
            [f EXCEPT !.pc = "returned", !.ret = DispatchResult(f, result)]]
    /\ call' = IF call.mode = "parallel"
               THEN [call EXCEPT !.results = PromiseAllStore(@, i, DispatchResult(f, result)),
                                 !.finished = Append(@, i)]
               ELSE [call EXCEPT !.finished = Append(@, i)]
    /\ UNCHANGED <<tasks, sink, sinkFailures>>

\* after `await logEvent(task_started)`
ResumeStarted(i) ==
    /\ i \in DOMAIN frames
    /\ frames[i].pc = "await_started"
    /\ LET f == frames[i]
           g == [f EXCEPT !.order = GetExecutorOrder(tasks[f.task], executors)]
       IN  IF f.rej THEN Rejected(i, f)
           ELSE \E ok \in BOOLEAN : ContinueOuter(i, g, 1, ok)
    /\ UNCHANGED <<outside, executors, options, call>>

\* (mutant) no .catch on the probe: only a probe that says false is a skip
AvailableUnlessFalse(outcome) == outcome # "false"

\* `await executor.isAvailable().catch(() => false)`
Available(outcome) == outcome = "true"

\* isAvailable() settles: true, false, or a rejection that .catch maps to false
AvailableReturns(i) ==
    /\ i \in DOMAIN frames
    /\ frames[i].pc = "await_available"
    /\ \E outcome \in {"true", "false", "throws"}, ok \in BOOLEAN :
          LET f == frames[i]
              g == IF outcome = "true" THEN [f EXCEPT !.passed = @ + 1]
                   ELSE [f EXCEPT !.skips = @ \cup {f.idx}]
          IN  IF Available(outcome)
              THEN BeginAttempt(i, g, 1, ok)
              ELSE ContinueOuter(i, g, f.idx + 1, ok)
    /\ UNCHANGED <<outside, executors, options, call>>

\* after `await logEvent(executor_called)`: executor.execute(task) is called
ResumeCalled(i) ==
    /\ i \in DOMAIN frames
    /\ frames[i].pc = "await_called"
    /\ LET f == frames[i]
       IN  IF f.rej THEN Rejected(i, f)
           ELSE /\ frames' = [frames EXCEPT ![i] =
                       [f EXCEPT !.pc = "await_execute", !.execs = @ + 1]]
                /\ UNCHANGED <<tasks, sink, sinkFailures>>
    /\ UNCHANGED <<outside, executors, options, call>>

\* what execute() of executor e hands back when it returns
ExecutorResult(e, outcome, n) ==
    [executor |-> e,
     success |-> outcome = "success",
     content |-> IF outcome = "success" THEN "content" ELSE "",
     error |-> CASE outcome = "failure" -> ReturnedError(e, n)
                 [] outcome = "failure_empty" -> EmptyMessage
                 [] OTHER -> NoError,
     durationMs |-> 1]

\* `err instanceof Error ? err.message : String(err)` of what execute() threw
ThrownMessage(e, outcome, n) ==
    IF outcome = "throws_empty" THEN EmptyMessage ELSE ThrownError(e, n)

\* execute() settles: a successful outcome, a failed outcome, or a throw
ExecuteReturns(i) ==
    /\ i \in DOMAIN frames
    /\ frames[i].pc = "await_execute"
    /\ \E outcome \in outcomes, ok \in BOOLEAN :
          LET f == frames[i]
              e == f.order[f.idx]
              result == ExecutorResult(e, outcome, f.attempts)
              first == IF outcome = "success" /\ f.firstSuccess = <<0, 0, 0>>
                       THEN <<f.idx, f.attempt, f.passed - 1>> ELSE f.firstSuccess
              ev == Event("executor_responded", f.task, e,
                          [success |-> result.success, durationMs |-> result.durationMs])
          IN  IF outcome \in {"throws", "throws_empty"}
              THEN CatchAttempt(i, f, ThrownMessage(e, outcome, f.attempts), ok)
              ELSE /\ LogEvent(ev, ok)
                   /\ frames' = [frames EXCEPT ![i] =
                          [f EXCEPT !.pc = "await_responded", !.rej = ~ok,
                                    !.result = result, !.firstSuccess = first,
                                    !.appendFailures = @ + Failures(ok),
                                    !.log = Logged(@, ev, ok), !.emitted = Append(@, ev)]]
                   /\ UNCHANGED tasks
    /\ UNCHANGED <<outside, executors, options, call>>

\* after `await logEvent(executor_responded)`, inside the try block
ResumeResponded(i) ==
    /\ i \in DOMAIN frames
    /\ frames[i].pc = "await_responded"
    /\ \E ok \in BOOLEAN :
          LET f == frames[i]
              ev == Event("task_completed", f.task, None,
                          [executorType |-> f.order[f.idx], attempts |-> f.attempts])
          IN  IF f.rej
              THEN CatchAttempt(i, f, SinkError, ok)
              ELSE IF f.result.success
              THEN /\ SetStatus(f.task, "completed")
                   /\ LogEvent(ev, ok)
                   /\ frames' = [frames EXCEPT ![i] =
                          [f EXCEPT !.pc = "await_completed", !.rej = ~ok,
                                    !.appendFailures = @ + Failures(ok),
                                    !.log = Logged(@, ev, ok), !.emitted = Append(@, ev)]]
              ELSE AfterAttempt(i, [f EXCEPT !.lastError = f.result.error,
                                             !.observed = IF f.result.error # NoError
                                                          THEN f.result.error ELSE @], ok)
    /\ UNCHANGED <<outside, executors, options, call>>

\* after `await logEvent(task_completed)`, inside the try block
ResumeCompleted(i) ==
    /\ i \in DOMAIN frames
    /\ frames[i].pc = "await_completed"
    /\ \E ok \in BOOLEAN :
          LET f == frames[i]
          IN  IF f.rej
              THEN /\ CatchAttempt(i, f, SinkError, ok)
                   /\ UNCHANGED call
              ELSE ok /\ Returned(i, f, f.result)
    /\ UNCHANGED <<outside, executors, options>>

\* the timer of delay(retryDelayMs * attempt) fires: the next attempt begins
DelayElapsed(i) ==
    /\ i \in DOMAIN frames
    /\ frames[i].pc = "await_delay"
    /\ \E ok \in BOOLEAN : BeginAttempt(i, frames[i], frames[i].attempt + 1, ok)
    /\ UNCHANGED <<outside, executors, options, call>>

\* after `await logEvent(task_failed)`
ResumeFailed(i) ==
    /\ i \in DOMAIN frames
    /\ frames[i].pc = "await_failed"
    /\ LET f == frames[i]
       IN  IF f.rej THEN Rejected(i, f) /\ UNCHANGED call ELSE Returned(i, f, f.result)
    /\ UNCHANGED <<outside, executors, options>>

-----------------------------------------------------------------------------
(* Dispatcher.dispatchAll *)

RECURSIVE StartedEvents(_, _, _)
\* the task_started rows that tasks.map(t => this.dispatch(t)) inserts, in input
\* order; the inserts of the entries in `failing` throw
StartedEvents(b, from, failing) ==
    IF from > Len(b) THEN <<>>
    ELSE (IF from \in failing THEN <<>> ELSE <<Row(StartedEvent(b[from]))>>)
         \o StartedEvents(b, from + 1, failing)

\* dispatchAll(tasks, true): every dispatch runs to its first await inside map(),
\* then Promise.all waits
DispatchAllParallel ==
    /\ call.mode = "none"
    /\ \E b \in Batches(Len(tasks)) :
       \E failing \in SUBSET (1..Len(b)) :
          /\ Work(b, tasks, executors, options.retryAttempts) * Len(b) <= MaxWork
          /\ sinkFailures + Cardinality(failing) <= MaxSinkFailures
          /\ frames' = [i \in 1..Len(b) |-> Started(IdleFrame(b[i]), i \notin failing)]
          /\ tasks' = [t \in DOMAIN tasks |->
                          IF t \in Range(b)
                          THEN [tasks[t] EXCEPT !.status = "running", !.updatedAt = clock]
                          ELSE tasks[t]]
          /\ sink' = sink \o StartedEvents(b, 1, failing)
          /\ sinkFailures' = sinkFailures + Cardinality(failing)
          /\ call' = [NoCall EXCEPT !.mode = "parallel", !.tasks = b, !.state = "pending",
                                     !.results = [i \in 1..Len(b) |-> NoReturn]]
    /\ UNCHANGED <<outside, executors, options>>

\* (mutant) Promise.any in place of Promise.all
AnyFulfilled(fs) == \E i \in DOMAIN fs : fs[i].pc = "returned"

\* Promise.all: every promise of the array is fulfilled
AllFulfilled(fs) == \A i \in DOMAIN fs : fs[i].pc = "returned"

\* Promise.all is fulfilled once every dispatch has returned
PromiseAllResolves ==
    /\ call.mode = "parallel"
    /\ call.state = "pending"
    /\ AllFulfilled(frames)
    /\ call' = [call EXCEPT !.state = "resolved"]
    /\ UNCHANGED <<outside, executors, options, tasks, sink, sinkFailures, frames>>

\* Promise.all is rejected as soon as one dispatch is rejected
PromiseAllRejects ==
    /\ call.mode = "parallel"
    /\ call.state = "pending"
    /\ \E i \in DOMAIN frames : frames[i].pc = "rejected"
    /\ call' = [call EXCEPT !.state = "rejected"]
    /\ UNCHANGED <<outside, executors, options, tasks, sink, sinkFailures, frames>>

\* dispatchAll(tasks, false) up to the first await: dispatch(tasks[0]) is called
DispatchAllSequential ==
    /\ call.mode = "none"
    /\ \E b \in Batches(Len(tasks)), ok \in BOOLEAN :
          /\ Work(b, tasks, executors, options.retryAttempts) * Len(b) <= MaxWork
          /\ frames' = [i \in 1..Len(b) |->
                           IF i = 1 THEN Started(IdleFrame(b[1]), ok) ELSE IdleFrame(b[i])]
          /\ SetStatus(b[1], "running")
          /\ LogEvent(StartedEvent(b[1]), ok)
          /\ call' = [NoCall EXCEPT !.mode = "sequential", !.tasks = b, !.state = "pending",
                                     !.i = 1]
    /\ UNCHANGED <<outside, executors, options>>

\* (mutant) the loop breaks at the first failed result
LoopStopsOnFailure(i, n, ret) == i < n /\ ret.result.success

\* `for (const task of tasks)`: whether the loop has another entry after entry i,
\* whose dispatch handed back `ret`
LoopGoesOn(i, n, ret) == i < n

\* `results.push(await this.dispatch(task))`, then the next iteration calls
\* dispatch, or the loop is over and dispatchAll returns results
SequentialNext ==
    /\ call.mode = "sequential"
    /\ call.state = "pending"
    /\ LET i == call.i
           n == Len(call.tasks)
           pushed == Append(call.results, frames[i].ret)
       IN  /\ frames[i].pc = "returned"
           /\ IF LoopGoesOn(i, n, frames[i].ret)
              THEN \E ok \in BOOLEAN :
                      /\ frames' = [frames EXCEPT ![i + 1] = Started(frames[i + 1], ok)]
                      /\ SetStatus(call.tasks[i + 1], "running")
                      /\ LogEvent(StartedEvent(call.tasks[i + 1]), ok)
                      /\ call' = [call EXCEPT !.results = pushed, !.i = i + 1]
              ELSE /\ call' = [call EXCEPT !.results = pushed, !.state = "resolved"]
                   /\ UNCHANGED <<frames, tasks, sink, sinkFailures>>
    /\ UNCHANGED <<outside, executors, options>>

\* (mutant) the loop catches the error of a dispatch and goes on with the next task
SequentialCatches ==
    /\ call.mode = "sequential"
    /\ call.state = "pending"
    /\ frames[call.i].pc = "rejected"
    /\ IF call.i < Len(call.tasks)
       THEN \E ok \in BOOLEAN :
               /\ frames' = [frames EXCEPT ![call.i + 1] = Started(frames[call.i + 1], ok)]
               /\ SetStatus(call.tasks[call.i + 1], "running")
               /\ LogEvent(StartedEvent(call.tasks[call.i + 1]), ok)
               /\ call' = [call EXCEPT !.i = call.i + 1]
       ELSE /\ call' = [call EXCEPT !.state = "resolved"]
            /\ UNCHANGED <<frames, tasks, sink, sinkFailures>>
    /\ UNCHANGED <<outside, executors, options>>

\* the awaited dispatch is rejected: dispatchAll is rejected
SequentialRejects ==
    /\ call.mode = "sequential"
    /\ call.state = "pending"
    /\ frames[call.i].pc = "rejected"
    /\ call' = [call EXCEPT !.state = "rejected"]
    /\ UNCHANGED <<outside, executors, options, tasks, sink, sinkFailures, frames>>

-----------------------------------------------------------------------------

Slots == 1..MaxBatch

\* any step of the i-th dispatch
DispatchStep(i) ==
    \/ ResumeStarted(i)
    \/ AvailableReturns(i)
    \/ ResumeCalled(i)
    \/ ExecuteReturns(i)
    \/ ResumeResponded(i)
    \/ ResumeCompleted(i)
    \/ DelayElapsed(i)
    \/ ResumeFailed(i)

Next ==
    \/ DispatchAllParallel
    \/ DispatchAllSequential
    \/ PromiseAllResolves
    \/ PromiseAllRejects
    \/ SequentialNext
    \/ SequentialRejects
    \/ \E i \in Slots : ResumeStarted(i)
    \/ \E i \in Slots : AvailableReturns(i)
    \/ \E i \in Slots : ResumeCalled(i)
    \/ \E i \in Slots : ExecuteReturns(i)
    \/ \E i \in Slots : ResumeResponded(i)
    \/ \E i \in Slots : ResumeCompleted(i)
    \/ \E i \in Slots : DelayElapsed(i)
    \/ \E i \in Slots : ResumeFailed(i)

Spec == Init /\ [][Next]_vars

SpecAnyMessage == InitAnyMessage /\ [][Next]_vars

\* codex and sonnet are registered, gemini is not
FairInit ==
    /\ Init
    /\ executors = <<"codex", "sonnet">>

\* every awaited promise of a dispatch settles (isAvailable, execute, the backoff
\* timer, logEvent), and the event loop then runs the continuation
FairSpec == FairInit /\ [][Next]_vars /\ \A i \in Slots : WF_vars(DispatchStep(i))

-----------------------------------------------------------------------------
(* The SQLiteStore alone: any caller logs, the clock moves, queries read *)

\* what a caller may hand to logEvent: taskId and executorType are optional, and
\* a taskId is any string, the empty one included
StoreTypes == {"system_error", "task_started", "executor_called"}

StoreTaskIds == {"", TaskId(1)}

StoreExecutorTypes == {"codex"}

\* a system_error of no task, and the events of a task with and without executor
StoreEvents ==
    {e \in [type : StoreTypes,
            taskId : StoreTaskIds \cup {None},
            executorType : StoreExecutorTypes \cup {None}] :
        /\ e.type = "system_error" <=> e.taskId = None
        /\ e.type = "executor_called" <=> e.executorType # None}

\* the filters a caller may hand to getEvents: every field is optional
Filters ==
    [type : StoreTypes \cup {None},
     taskId : StoreTaskIds \cup {None},
     executorType : StoreExecutorTypes \cup {None}]

\* `if (filter?.type)`: undefined and the empty string are falsy
Truthy(x) == x \notin {None, ""}

\* SQLiteStore.getEvents
GetEvents(filter) ==
    RowsToEvents(OrderByTimestamp(SelectSeq(sink, LAMBDA row :
        /\ Truthy(filter.type) => row.type = filter.type
        /\ Truthy(filter.taskId) => row.task_id = filter.taskId
        /\ Truthy(filter.executorType) => row.executor_type = filter.executorType)))

StoreInit ==
    /\ sink = <<>>
    /\ sinkFailures = 0
    /\ clock = 0
    /\ executors = <<>>
    /\ options = [retryAttempts |-> 1, retryDelayMs |-> DefaultRetryDelayMs]
    /\ tasks = <<>>
    /\ frames = <<>>
    /\ call = NoCall
    /\ orpheus = NewOrpheus
    /\ outcomes = {}
    /\ adapters = NoAdapters

\* a caller logs an event; its payload numbers the calls as the store's test does
StoreLogEvent ==
    /\ Len(sink) + sinkFailures < MaxRows
    /\ \E e \in StoreEvents, ok \in BOOLEAN :
          LogEvent([type |-> e.type, taskId |-> e.taskId, executorType |-> e.executorType,
                    payload |-> [step |-> Len(sink) + sinkFailures + 1]], ok)
    /\ UNCHANGED <<clock, executors, options, tasks, frames, call, orpheus, outcomes,
                   adapters>>

\* the wall clock behind new Date(): time passes, or the clock is set (Date is not
\* monotonic)
ClockMoves ==
    /\ \E now \in 0..MaxClock : now # clock /\ clock' = now
    /\ UNCHANGED <<sink, sinkFailures, executors, options, tasks, frames, call, orpheus,
                   outcomes, adapters>>

StoreNext ==
    \/ StoreLogEvent
    \/ ClockMoves

StoreSpec == StoreInit /\ [][StoreNext]_vars

-----------------------------------------------------------------------------
(* The operator clears the log while the Dispatcher works *)

\* (mutant) the oldest event is kept
DeleteButTheOldest(rows) == IF rows = <<>> THEN <<>> ELSE <<Head(rows)>>

\* `DELETE FROM events`
DeleteFromEvents(rows) == <<>>

\* SQLiteStore.clear(), called from outside the core at any moment
Clear ==
    /\ sink' = DeleteFromEvents(sink)
    /\ UNCHANGED <<outside, executors, options, tasks, sinkFailures, frames, call>>

\* one batch of at most two dispatches of one task, on codex and sonnet
ClearInit ==
    /\ FairInit
    /\ Len(tasks) = 1

ClearNext ==
    \/ Next
    \/ Clear

ClearSpec == ClearInit /\ [][ClearNext]_vars

-----------------------------------------------------------------------------
(* Orpheus: registration of the memory store and the executors, execute *)

DefaultRetryAttempts == 3

NotReadyError == [kind |-> "Orpheus not ready: register memory and at least one executor"]

\* the one MemoryStore of the program
MemoryStore == "SQLiteStore"

\* a prompt, as the routing words it contains
CodePatterns == {"code"}
ResearchPatterns == {"search"}
Prompts == SUBSET (CodePatterns \cup ResearchPatterns)

MatchesPatterns(prompt, patterns) == prompt \cap patterns # {}

\* (mutant) the research patterns are looked for first
AnalyzePromptResearchFirst(prompt) ==
    IF MatchesPatterns(prompt, ResearchPatterns) THEN "gemini"
    ELSE IF MatchesPatterns(prompt, CodePatterns) THEN "codex"
    ELSE "sonnet"

\* Planner.analyzePrompt: recommendedExecutor
AnalyzePrompt(prompt) ==
    IF MatchesPatterns(prompt, CodePatterns) THEN "codex"
    ELSE IF MatchesPatterns(prompt, ResearchPatterns) THEN "gemini"
    ELSE "sonnet"

\* (mutant) the preferred executor is put in front and not taken out of the rest
GetFallbackOrderNoFilter(preferred) ==
    LET all == <<"sonnet", "codex", "gemini">>
    IN  IF preferred = None THEN all
        ELSE <<preferred>> \o all

\* Planner.getFallbackOrder
GetFallbackOrder(preferred) ==
    LET all == <<"sonnet", "codex", "gemini">>
    IN  IF preferred = None THEN all
        ELSE <<preferred>> \o SelectSeq(all, LAMBDA e : e # preferred)

\* Planner.createTask
CreateTask(preferred) ==
    [id |-> TaskId(1),
     prompt |-> "prompt",
     systemPrompt |-> None,
     preferredExecutor |-> IF preferred # None THEN preferred ELSE orpheus.defaultExecutor,
     fallbackExecutors |-> GetFallbackOrder(preferred),
     priority |-> "normal",
     status |-> "pending",
     parentId |-> None,
     metadata |-> [source |-> "planner"],
     updatedAt |-> clock]

\* Planner.createPlan: plan.tasks
CreatePlan(prompt) == <<CreateTask(AnalyzePrompt(prompt))>>

\* Map.set: a new key goes last, a known key keeps its place
MapSet(registry, e) == IF e \in Range(registry) THEN registry ELSE Append(registry, e)

\* (mutant) the dispatcher is built as soon as one of the two is registered
RebuildDispatcherOnEither(memory, registry) ==
    IF memory # Null \/ Len(registry) > 0 THEN "Dispatcher"
    ELSE orpheus.dispatcher

\* Orpheus.rebuildDispatcher: the dispatcher field afterwards
RebuildDispatcher(memory, registry) ==
    IF memory # Null /\ Len(registry) > 0 THEN "Dispatcher"
    ELSE orpheus.dispatcher

OrpheusInit ==
    /\ orpheus \in {[NewOrpheus EXCEPT !.parallelExecution = p] : p \in BOOLEAN}
    /\ executors = <<>>
    /\ options = [retryAttempts |-> DefaultRetryAttempts, retryDelayMs |-> DefaultRetryDelayMs]
    /\ tasks = <<>>
    /\ sink = <<>>
    /\ sinkFailures = 0
    /\ frames = <<>>
    /\ call = NoCall
    /\ clock = 0
    \* the executors of the run answer every call, well or with a failed result
    /\ outcomes = {"success", "failure"}
    /\ adapters = NoAdapters

\* Orpheus.useMemory
UseMemory ==
    /\ call.mode = "none"
    /\ orpheus' = [orpheus EXCEPT !.memory = MemoryStore,
                                  !.dispatcher = RebuildDispatcher(MemoryStore, executors)]
    /\ UNCHANGED <<clock, outcomes, adapters, executors, options, tasks, sink, sinkFailures,
                   frames, call>>

\* Orpheus.useExecutor
UseExecutor ==
    /\ call.mode = "none"
    /\ \E e \in ExecutorTypes :
          /\ executors' = MapSet(executors, e)
          /\ orpheus' = [orpheus EXCEPT
                            !.dispatcher = RebuildDispatcher(orpheus.memory, executors')]
    /\ UNCHANGED <<clock, outcomes, adapters, options, tasks, sink, sinkFailures, frames,
                   call>>

\* Orpheus.execute up to its first await: it throws, or createPlan is called
Execute ==
    /\ call.mode = "none"
    /\ \E prompt \in Prompts :
          IF orpheus.dispatcher = Null
          THEN /\ orpheus' = [orpheus EXCEPT !.executed =
                                 [called |-> TRUE, prompt |-> prompt, memory |-> orpheus.memory,
                                  executors |-> executors, error |-> NotReadyError]]
               /\ UNCHANGED <<tasks, call>>
          ELSE /\ orpheus' = [orpheus EXCEPT !.executed =
                                 [called |-> TRUE, prompt |-> prompt, memory |-> orpheus.memory,
                                  executors |-> executors, error |-> NoError]]
               /\ tasks' = CreatePlan(prompt)
               /\ call' = [NoCall EXCEPT !.mode = "planning"]
    /\ UNCHANGED <<clock, outcomes, adapters, executors, options, sink, sinkFailures,
                   frames>>

\* createPlan has returned: dispatchAll(plan.tasks, false) calls dispatch of the
\* first task
PlanCreatedSequential ==
    /\ call.mode = "planning"
    /\ ~orpheus.parallelExecution
    /\ LET b == [i \in DOMAIN tasks |-> i]
       IN  \E ok \in BOOLEAN :
              /\ frames' = [i \in 1..Len(b) |->
                               IF i = 1 THEN Started(IdleFrame(b[1]), ok)
                               ELSE IdleFrame(b[i])]
              /\ SetStatus(b[1], "running")
              /\ LogEvent(StartedEvent(b[1]), ok)
              /\ call' = [NoCall EXCEPT !.mode = "sequential", !.tasks = b,
                                         !.state = "pending", !.i = 1]
    /\ UNCHANGED <<outside, executors, options>>

\* createPlan has returned: dispatchAll(plan.tasks, true) calls dispatch of every
\* task
PlanCreatedParallel ==
    /\ call.mode = "planning"
    /\ orpheus.parallelExecution
    /\ LET b == [i \in DOMAIN tasks |-> i]
       IN  \E failing \in SUBSET (1..Len(b)) :
              /\ sinkFailures + Cardinality(failing) <= MaxSinkFailures
              /\ frames' = [i \in 1..Len(b) |-> Started(IdleFrame(b[i]), i \notin failing)]
              /\ tasks' = [t \in DOMAIN tasks |->
                              [tasks[t] EXCEPT !.status = "running", !.updatedAt = clock]]
              /\ sink' = sink \o StartedEvents(b, 1, failing)
              /\ sinkFailures' = sinkFailures + Cardinality(failing)
              /\ call' = [NoCall EXCEPT !.mode = "parallel", !.tasks = b,
                                         !.state = "pending",
                                         !.results = [i \in 1..Len(b) |-> NoReturn]]
    /\ UNCHANGED <<outside, executors, options>>

OrpheusNext ==
    \/ UseMemory
    \/ UseExecutor
    \/ Execute
    \/ PlanCreatedSequential
    \/ PlanCreatedParallel
    \/ PromiseAllResolves
    \/ PromiseAllRejects
    \/ SequentialNext
    \/ SequentialRejects
    \/ \E i \in Slots : ResumeStarted(i)
    \/ \E i \in Slots : AvailableReturns(i)
    \/ \E i \in Slots : ResumeCalled(i)
    \/ \E i \in Slots : ExecuteReturns(i)
    \/ \E i \in Slots : ResumeResponded(i)
    \/ \E i \in Slots : ResumeCompleted(i)
    \/ \E i \in Slots : DelayElapsed(i)
    \/ \E i \in Slots : ResumeFailed(i)

OrpheusSpec == OrpheusInit /\ [][OrpheusNext]_vars

-----------------------------------------------------------------------------
(* Executors are registered while a dispatch is under way *)

\* one task is dispatched and at most one executor is registered when the run
\* begins; the executors succeed or return a failed outcome
RegistryInit ==
    /\ InitDispatcher
    /\ Len(tasks) = 1
    /\ Len(executors) <= 1
    /\ outcomes = {"success", "failure"}

Registrations == orpheus.objects["codex"] + orpheus.objects["sonnet"] + orpheus.objects["gemini"]

\* a dispatch waits for a backend or for its backoff timer
Suspended(f) == f.pc \in {"await_available", "await_execute", "await_delay"}

\* Dispatcher.registerExecutor, or Orpheus.useExecutor on the same Map, with a new
\* Executor object, called while a dispatch is suspended
RegisterExecutor ==
    /\ Registrations < MaxRegistrations
    /\ \E i \in DOMAIN frames : Suspended(frames[i])
    /\ \E e \in ExecutorTypes :
          /\ executors' = MapSet(executors, e)
          /\ orpheus' = [orpheus EXCEPT !.objects[e] = @ + 1]
    /\ UNCHANGED <<clock, outcomes, adapters, options, tasks, sink, sinkFailures, frames,
                   call>>

RegistryNext ==
    \/ Next
    \/ RegisterExecutor

RegistrySpec == RegistryInit /\ [][RegistryNext]_vars

-----------------------------------------------------------------------------
(* The Planner alone: createTask for every configuration and every caller *)

\* a Planner built by createPlanner({ defaultExecutor })
PlannerInit ==
    /\ orpheus \in {[NewOrpheus EXCEPT !.defaultExecutor = e] : e \in ExecutorTypes}
    /\ tasks = <<>>
    /\ executors = <<>>
    /\ options = [retryAttempts |-> DefaultRetryAttempts, retryDelayMs |-> DefaultRetryDelayMs]
    /\ sink = <<>>
    /\ sinkFailures = 0
    /\ frames = <<>>
    /\ call = NoCall
    /\ clock = 0
    /\ outcomes = {}
    /\ adapters = NoAdapters

\* a caller has a task built, with or without a preferred executor
CreateTaskCalled ==
    /\ Len(tasks) < MaxPlanned
    /\ \E preferred \in ExecutorTypes \cup {None} :
          tasks' = Append(tasks, [CreateTask(preferred) EXCEPT !.id = TaskId(Len(tasks) + 1)])
    /\ UNCHANGED <<executors, options, sink, sinkFailures, frames, call, clock, orpheus,
                   outcomes, adapters>>

PlannerNext == CreateTaskCalled

PlannerSpec == PlannerInit /\ [][PlannerNext]_vars

-----------------------------------------------------------------------------
(* The backend adapters: GeminiExecutor, SonnetExecutor, CodexExecutor *)

\* a value that is not an Error: a string, a number or undefined
Values ==
    {[type |-> "string", s |-> "quota exceeded", n |-> 0],
     [type |-> "number", s |-> "", n |-> 503],
     [type |-> "undefined", s |-> "", n |-> 0]}

\* String(value)
StringOf(value) ==
    CASE value.type = "string" -> value.s
      [] value.type = "number" -> ToString(value.n)
      [] value.type = "undefined" -> "undefined"

\* what the provider call, or the reading of its response, can throw
ErrorValue(message) ==
    [instanceOfError |-> TRUE, message |-> message,
     value |-> [type |-> "undefined", s |-> "", n |-> 0]]

ThrownValues ==
    {ErrorValue(m) : m \in {"401 invalid api key", ""}}
       \cup {[instanceOfError |-> FALSE, message |-> None, value |-> v] : v \in Values}

\* the response cannot be read: response.text() throws, response.usage or
\* response.choices is missing
UnreadableError == ErrorValue("Cannot read properties of undefined")

NoThrown == ErrorValue("none")

\* how the awaited provider call settles: a response with `parts` choices or
\* content blocks and their text, a response that cannot be read, a rejection
Settlements ==
    {[kind |-> "response", parts |-> 1, text |-> "pong", err |-> NoThrown],
     [kind |-> "response", parts |-> 1, text |-> "", err |-> NoThrown],
     [kind |-> "response", parts |-> 0, text |-> "", err |-> NoThrown],
     [kind |-> "unreadable", parts |-> 0, text |-> "", err |-> UnreadableError]}
       \cup {[kind |-> "rejects", parts |-> 0, text |-> "", err |-> err] :
                 err \in ThrownValues}

NoSettlement == [kind |-> "none", parts |-> 0, text |-> "", err |-> NoThrown]

\* `err instanceof Error ? err.message : String(err)`
ErrorMessage(err) == IF err.instanceOfError THEN err.message ELSE StringOf(err.value)

AdapterResult(settled, e, success, content, error, durationMs, available) ==
    [settled |-> settled, executor |-> e, success |-> success, content |-> content,
     error |-> error, durationMs |-> durationMs, available |-> available]

NoAdapterResult == AdapterResult("pending", None, FALSE, "", None, 0, FALSE)

\* (mutant) execute without its catch block: the promise is rejected
CatchRethrows(e, startTime, err) ==
    AdapterResult("rejected", None, FALSE, "", None, 0, FALSE)

\* the catch block of execute
Catch(e, startTime, err) ==
    AdapterResult("fulfilled", e, FALSE, "", ErrorMessage(err), clock - startTime, FALSE)

\* execute after `await` of the provider call
ExecuteSettles(e, startTime, settlement) ==
    IF settlement.kind = "response"
    THEN AdapterResult("fulfilled", e, TRUE, settlement.text, None, clock - startTime,
                       FALSE)
    ELSE Catch(e, startTime, settlement.err)

\* isAvailable after `await` of the ping: choices.length > 0 (codex),
\* content.length > 0 (sonnet), text().length > 0 (gemini); catch { return false }
IsAvailableSettles(e, settlement) ==
    IF settlement.kind = "response"
    THEN AdapterResult("fulfilled", None, FALSE, "", None, 0,
                       IF e = "gemini" THEN Len(settlement.text) > 0
                       ELSE settlement.parts > 0)
    ELSE AdapterResult("fulfilled", None, FALSE, "", None, 0, FALSE)

IdleAdapter ==
    [pc |-> "idle", op |-> "none", startTime |-> 0, settlement |-> NoSettlement,
     result |-> NoAdapterResult]

\* the three adapters are constructed; no Dispatcher, no store
AdapterInit ==
    /\ adapters = [e \in ExecutorTypes |-> IdleAdapter]
    /\ clock = 0
    /\ sink = <<>>
    /\ sinkFailures = 0
    /\ executors = <<>>
    /\ options = [retryAttempts |-> 1, retryDelayMs |-> DefaultRetryDelayMs]
    /\ tasks = <<>>
    /\ frames = <<>>
    /\ call = NoCall
    /\ orpheus = NewOrpheus
    /\ outcomes = {}

\* execute(task) up to `await` of the provider call: startTime = Date.now()
AdapterExecute(e) ==
    /\ adapters[e].pc = "idle"
    /\ adapters' = [adapters EXCEPT ![e] =
                       [IdleAdapter EXCEPT !.pc = "awaiting", !.op = "execute",
                                           !.startTime = clock]]
    /\ UNCHANGED <<clock, orpheus, outcomes, executors, options, tasks, sink, sinkFailures,
                   frames, call>>

\* isAvailable() up to `await` of the ping
AdapterIsAvailable(e) ==
    /\ adapters[e].pc = "idle"
    /\ adapters' = [adapters EXCEPT ![e] =
                       [IdleAdapter EXCEPT !.pc = "awaiting", !.op = "isAvailable"]]
    /\ UNCHANGED <<clock, orpheus, outcomes, executors, options, tasks, sink, sinkFailures,
                   frames, call>>

\* the provider call settles and the adapter's call runs to its end
ProviderSettles(e) ==
    /\ adapters[e].pc = "awaiting"
    /\ \E settlement \in Settlements :
          LET a == adapters[e]
          IN  adapters' = [adapters EXCEPT ![e] =
                 [a EXCEPT !.pc = "settled", !.settlement = settlement,
                           !.result = IF a.op = "execute"
                                      THEN ExecuteSettles(e, a.startTime, settlement)
                                      ELSE IsAvailableSettles(e, settlement)]]
    /\ UNCHANGED <<clock, orpheus, outcomes, executors, options, tasks, sink, sinkFailures,
                   frames, call>>

AdapterNext ==
    \/ \E e \in ExecutorTypes : AdapterExecute(e)
    \/ \E e \in ExecutorTypes : AdapterIsAvailable(e)
    \/ \E e \in ExecutorTypes : ProviderSettles(e)
    \/ ClockMoves

AdapterSpec == AdapterInit /\ [][AdapterNext]_vars

-----------------------------------------------------------------------------
(* Vocabulary of the claims *)

R == options.retryAttempts

Plan(f) == GetExecutorOrder(tasks[f.task], executors)

Settled(f) == f.pc \in {"returned", "rejected"}

Active(f) == f.pc \notin {"idle", "returned", "rejected"}

Terminal(ev) == ev.type \in {"task_completed", "task_failed"}

\* how often task t occurs in the batch of the call
Occurrences(t) == Cardinality({i \in DOMAIN call.tasks : call.tasks[i] = t})

\* the shape of one task's events as section 8 of the specification states it
WellFormedHistory(h) ==
    /\ Len(h) >= 2
    /\ h[1].type = "task_started"
    /\ Terminal(h[Len(h)])
    /\ \A p \in 1..(Len(h) - 1) : ~Terminal(h[p])
    /\ \A p \in 2..Len(h) : h[p].type # "task_started"
    /\ \A p \in 1..Len(h) :
          h[p].type = "executor_called" =>
             /\ p < Len(h)
             /\ h[p + 1].type = "executor_responded"
             /\ h[p + 1].executorType = h[p].executorType

Rank(status) ==
    CASE status = "pending" -> 0
      [] status = "running" -> 1
      [] OTHER -> 2

-----------------------------------------------------------------------------
(* C1: as long as the sink accepts every append, a dispatch with a non-empty
   plan is never rejected, whatever isAvailable and execute do (return false or
   a failed outcome, or throw): it can always take its next step, and what it
   returns is a DispatchResult in which a failure carries its error. *)
C1_BackendFailuresNeverReject ==
    \A i \in DOMAIN frames :
       LET f == frames[i]
       IN  (sinkFailures = 0 /\ Plan(f) # <<>>) =>
              /\ f.pc # "rejected"
              /\ Active(f) => ENABLED DispatchStep(i)
              /\ f.pc = "returned" =>
                    /\ f.ret.kind = "DispatchResult"
                    /\ f.ret.result.success \/ f.ret.result.error # NoError

\* a dispatch returned a failure after a probe said no and an execute call threw
C1_Witness ==
    \E i \in DOMAIN frames :
       /\ frames[i].pc = "returned"
       /\ sinkFailures = 0
       /\ frames[i].probes > frames[i].passed
       /\ ~frames[i].ret.result.success
       /\ frames[i].ret.result.error.kind = "thrown"

(* C2: a dispatch whose backend list is empty raises a plan error and appends
   no event: once it has begun, the task has no event in the sink and the
   dispatch never returns a result. *)
C2_EmptyPlanRaises ==
    \A i \in DOMAIN frames :
       LET f == frames[i]
       IN  (f.pc # "idle" /\ Plan(f) = <<>> /\ f.appendFailures = 0) =>
              /\ GetTaskHistory(TaskId(f.task)) = <<>>
              /\ f.pc # "returned"

(* C3: a sink append of a dispatch that fails makes the dispatch reject: the
   failure is on its way to the caller (the awaited promise is rejected) or the
   dispatch is rejected; it is never swallowed. *)
C3_SinkFailureRejects ==
    \A i \in DOMAIN frames :
       frames[i].appendFailures > 0 => (frames[i].rej \/ frames[i].pc = "rejected")

(* C4: when a dispatch returns, the events of its task start with task_started,
   end with the only task_completed or task_failed, and every executor_called
   is immediately followed by an executor_responded of the same backend.
   Stated for the runs in which the sink accepted every append and the task
   was dispatched once. *)
C4_EventsWellFormed ==
    \A i \in DOMAIN frames :
       (frames[i].pc = "returned" /\ sinkFailures = 0 /\ Occurrences(frames[i].task) = 1)
          => WellFormedHistory(GetTaskHistory(TaskId(frames[i].task)))

(* C5: if the k-th plan entry is the first whose try succeeds, on its j-th
   try, the result has attempts = R * (entries before k that were registered
   and available) + j and names the k-th entry as its executor. *)
C5_FirstSuccessAttempts ==
    \A i \in DOMAIN frames :
       LET f == frames[i]
           k == f.firstSuccess[1]
           j == f.firstSuccess[2]
           before == f.firstSuccess[3]
       IN  (f.pc = "returned" /\ k > 0) =>
              /\ f.ret.attempts = R * before + j
              /\ f.ret.result.executor = f.order[k]

(* C6: if every try of every backend fails, the attempts of the returned
   result are R times the number of plan entries that were registered and
   available. *)
C6_AllFailAttempts ==
    \A i \in DOMAIN frames :
       LET f == frames[i]
       IN  (f.pc = "returned" /\ f.firstSuccess = <<0, 0, 0>>) =>
              /\ f.ret.attempts = R * f.passed
              /\ ~f.ret.result.success

\* two backends were available and each failed R = 2 times
C6_Witness ==
    \E i \in DOMAIN frames :
       /\ frames[i].pc = "returned"
       /\ frames[i].firstSuccess = <<0, 0, 0>>
       /\ R = 2
       /\ frames[i].passed = 2
       /\ frames[i].ret.attempts = 4

(* C7: a task's status never moves back: not from running to pending, and not
   from completed or failed to running or pending. *)
C7_StatusMonotonic ==
    [][\A t \in DOMAIN tasks : Rank(tasks[t].status) <= Rank(tasks'[t].status)]_vars

(* C8: when dispatchAll returns, it returns one DispatchResult per input task,
   the i-th being the result of the dispatch of tasks[i], in both modes. *)
C8_ResultsInInputOrder ==
    call.state = "resolved" =>
       /\ Len(call.results) = Len(call.tasks)
       /\ \A i \in DOMAIN call.tasks :
             /\ call.results[i].kind = "DispatchResult"
             /\ call.results[i].task = call.tasks[i]
             /\ call.results[i] = frames[i].ret

\* concurrent mode, two different tasks, the second finished first
C8_Witness ==
    /\ call.mode = "parallel"
    /\ call.state = "resolved"
    /\ call.tasks = <<1, 2>>
    /\ call.finished = <<2, 1>>

(* C9, as stated: in concurrent mode dispatchAll does not settle, by returning
   or by raising, before every dispatch it started has finished. *)
C9_SettlesAfterAll ==
    (call.mode = "parallel" /\ call.state \in {"resolved", "rejected"}) =>
       \A i \in DOMAIN frames : Settled(frames[i])

(* C9, amended: in concurrent mode dispatchAll does not return before every
   dispatch it started has returned, and it raises only once a dispatch has
   raised. *)
C9_ReturnsAfterAll ==
    call.mode = "parallel" =>
       /\ call.state = "resolved" => \A i \in DOMAIN frames : frames[i].pc = "returned"
       /\ call.state = "rejected" => \E i \in DOMAIN frames : frames[i].pc = "rejected"

\* concurrent mode, two dispatches, dispatchAll has returned
C9_Witness ==
    /\ call.mode = "parallel"
    /\ call.state = "resolved"
    /\ Len(frames) = 2
    /\ call.finished = <<1, 2>>

(* C10, as stated: in sequential mode a task whose dispatch ended with status
   failed does not keep the next task from being dispatched. *)
C10_FailedNeverBlocks ==
    (call.mode = "sequential" /\ call.state \in {"resolved", "rejected"}) =>
       \A i \in DOMAIN frames :
          (/\ i < Len(frames)
           /\ call.tasks[i] # call.tasks[i + 1]
           /\ Settled(frames[i])
           /\ tasks[call.tasks[i]].status = "failed") => frames[i + 1].starts = 1

(* C10, amended: in sequential mode the entries are dispatched one at a time,
   in input order, each at most once and only after the one before it has
   returned; a returned result, failed or not, lets the loop go on; and when
   dispatchAll returns every entry has been dispatched exactly once. *)
C10_SequentialOneAtATime ==
    call.mode = "sequential" =>
       /\ \A i \in DOMAIN frames : frames[i].starts <= 1
       /\ \A i, j \in DOMAIN frames : (Active(frames[i]) /\ Active(frames[j])) => i = j
       /\ \A i \in DOMAIN frames :
             (i > 1 /\ frames[i].starts = 1) => frames[i - 1].pc = "returned"
       /\ (call.state = "pending" /\ frames[call.i].pc = "returned") => ENABLED SequentialNext
       /\ call.state = "resolved" =>
             \A i \in DOMAIN frames : frames[i].starts = 1 /\ frames[i].pc = "returned"

\* two different tasks, the first returned a failed result, dispatchAll returned
C10_Witness ==
    /\ call.mode = "sequential"
    /\ call.state = "resolved"
    /\ call.tasks = <<1, 2>>
    /\ ~call.results[1].result.success
    /\ tasks[1].status = "failed"

(* C11: in concurrent mode, whatever the interleaving, the events of one task
   stand in the sink in the order in which its dispatch logged them, none
   reordered, merged or lost: for a task of the batch that is dispatched once,
   the rows of the task, in insertion order, are the events its dispatch has
   logged so far. *)
C11_PerTaskOrderKept ==
    call.mode = "parallel" =>
       \A i \in DOMAIN frames :
          Occurrences(frames[i].task) = 1 =>
             RowsToEvents(SelectSeq(sink, LAMBDA row : row.task_id = TaskId(frames[i].task)))
                = [k \in DOMAIN frames[i].log |-> RowToEvent(Row(frames[i].log[k]))]

\* two tasks dispatched concurrently have both returned, and in the sink an
\* event of the second task stands between two backend events of the first
C11_Witness ==
    /\ call.mode = "parallel"
    /\ call.tasks = <<1, 2>>
    /\ \A i \in DOMAIN frames : frames[i].pc = "returned"
    /\ \E p, q, r \in DOMAIN sink :
          /\ p < q /\ q < r
          /\ sink[p].task_id = TaskId(1) /\ sink[p].type = "executor_called"
          /\ sink[q].task_id = TaskId(2) /\ sink[q].type = "executor_called"
          /\ sink[r].task_id = TaskId(1) /\ sink[r].type = "executor_responded"

\* a human-readable description: a string that is there and is not empty
Readable(error) == error \notin {NoError, EmptyMessage}

(* C12: when no try of a non-empty plan succeeded (every backend exhausted or
   skipped), dispatch does not raise as long as the sink accepts its appends,
   and what it returns is a well-formed failure: success false, content empty,
   durationMs 0, attempts >= 0, the task's status failed, and an error that is
   a non-empty string. *)
C12_WellFormedFailure ==
    \A i \in DOMAIN frames :
       LET f == frames[i]
       IN  (/\ Plan(f) # <<>>
            /\ f.firstSuccess = <<0, 0, 0>>
            /\ f.appendFailures = 0
            /\ Occurrences(f.task) = 1) =>
              /\ f.pc # "rejected"
              /\ f.pc = "returned" =>
                    /\ f.ret.kind = "DispatchResult"
                    /\ ~f.ret.result.success
                    /\ f.ret.result.content = ""
                    /\ f.ret.result.durationMs = 0
                    /\ f.ret.attempts >= 0
                    /\ tasks[f.task].status = "failed"
                    /\ Readable(f.ret.result.error)

(* C13, as stated: in every DispatchResult attempts >= 1 whenever a backend of
   the plan was reachable (registered and available), and attempts = 0 occurs
   only when the plan was empty. *)
C13_ZeroOnlyIfEmptyPlan ==
    \A i \in DOMAIN frames :
       LET f == frames[i]
       IN  f.pc = "returned" =>
              /\ f.passed >= 1 => f.ret.attempts >= 1
              /\ f.ret.attempts = 0 => Plan(f) = <<>>

(* C13, amended: in every DispatchResult attempts >= 1 exactly when a backend
   of the plan was reachable; attempts = 0 when none was, which the empty plan
   is one case of and a plan whose entries are all unregistered or unavailable
   is another. *)
C13_ZeroIffNoneReachable ==
    \A i \in DOMAIN frames :
       LET f == frames[i]
       IN  f.pc = "returned" =>
              /\ f.ret.attempts >= 0
              /\ f.passed >= 1 <=> f.ret.attempts >= 1
              /\ Plan(f) = <<>> => f.ret.attempts = 0

\* a dispatch returned after it skipped one entry of its plan and tried another
C13_Witness ==
    \E i \in DOMAIN frames :
       /\ frames[i].pc = "returned"
       /\ frames[i].skips # {}
       /\ frames[i].passed = 1
       /\ frames[i].ret.attempts >= 1

\* the plan positions of a dispatch whose executor is registered
RegisteredAt(f) == {k \in DOMAIN f.order : f.order[k] \in Range(executors)}

\* the plan positions whose probe has said yes
PassedAt(f) ==
    {k \in RegisteredAt(f) :
        /\ k \notin f.skips
        /\ k < f.idx \/ (k = f.idx /\ f.pc # "await_available")}

\* the events of the given type among those a dispatch has logged
OfType(log, type) == SelectSeq(log, LAMBDA ev : ev.type = type)

(* C14: a plan entry that is not registered, or whose isAvailable says false
   or throws, is skipped: it adds nothing to attempts (attempts never exceed R
   tries per entry that passed its probe), no executor_called and no
   executor_responded names it, and the dispatch goes on with the next entry
   (a dispatch that returns without a success has probed every registered
   entry); when every entry is skipped the result has attempts = 0 and
   success = false and the events are exactly task_started, task_failed. *)
C14_SkippedEntriesLeaveNoTrace ==
    \A i \in DOMAIN frames :
       LET f == frames[i]
           backendEvents == SelectSeq(f.log, LAMBDA ev : ev.executorType # None)
       IN  f.pc # "idle" =>
              /\ Cardinality(PassedAt(f)) = f.passed
              /\ f.attempts <= R * f.passed
              /\ Len(OfType(f.log, "executor_called")) <= f.attempts
              /\ \A p \in DOMAIN backendEvents :
                    \E k \in PassedAt(f) : f.order[k] = backendEvents[p].executorType
              /\ \A e \in ExecutorTypes :
                    Len(SelectSeq(OfType(f.log, "executor_called"),
                                  LAMBDA ev : ev.executorType = e))
                       <= R * Cardinality({k \in PassedAt(f) : f.order[k] = e})
              /\ (f.pc = "returned" /\ f.firstSuccess = <<0, 0, 0>>) =>
                    f.passed + Cardinality(f.skips) = Cardinality(RegisteredAt(f))
              /\ (f.pc = "returned" /\ f.passed = 0 /\ f.appendFailures = 0) =>
                    /\ f.ret.attempts = 0
                    /\ ~f.ret.result.success
                    /\ [p \in DOMAIN f.log |-> f.log[p].type]
                          = <<"task_started", "task_failed">>

\* plan [A] with R = 2, A's probe said no or threw: the dispatch returned with
\* attempts = 0 and two events
C14_Witness ==
    \E i \in DOMAIN frames :
       /\ frames[i].pc = "returned"
       /\ R = 2
       /\ Len(frames[i].order) = 1
       /\ frames[i].skips = {1}
       /\ frames[i].ret.attempts = 0
       /\ Len(frames[i].log) = 2

(* C15: when a dispatch ends in exhaustion, the executor named by the failure
   outcome it builds is the first entry of the plan or the task's preferred
   executor, also for a task that has fallbackExecutors and no
   preferredExecutor. *)
C15_FailureNamesPlanOrPreferred ==
    \A i \in DOMAIN frames :
       LET f == frames[i]
           task == tasks[f.task]
           plan == Plan(f)
       IN  (f.pc = "returned" /\ f.firstSuccess = <<0, 0, 0>> /\ plan # <<>>) =>
              \/ f.ret.result.executor = plan[1]
              \/ /\ task.preferredExecutor # None
                 /\ f.ret.result.executor = task.preferredExecutor

(* C16: a dispatch that has begun reaches a terminal outcome: if every promise
   it awaits settles, it eventually returns, or raises because an append of
   its own was refused; it raises for no other reason, and at the moment it
   returns the status of its task is completed or failed. *)
C16_DispatchTerminates ==
    /\ \A i \in Slots :
          [](i \in DOMAIN frames /\ Active(frames[i])
                => <>(i \in DOMAIN frames /\ Settled(frames[i])))
    /\ [](\A i \in DOMAIN frames :
             frames[i].pc = "rejected" => frames[i].appendFailures > 0)
    /\ [][\A i \in DOMAIN frames \cap DOMAIN frames' :
             (frames[i].pc # "returned" /\ frames'[i].pc = "returned")
                => tasks'[frames'[i].task].status \in {"completed", "failed"}]_vars

\* a dispatch has returned after a backoff wait and a second try
C16_Witness ==
    \E i \in DOMAIN frames :
       /\ frames[i].pc = "returned"
       /\ frames[i].attempt = 2
       /\ frames[i].delayMs = 0
       /\ frames[i].execs = 2
       /\ tasks[frames[i].task].status \in {"completed", "failed"}

\* the events logged with the given taskId, in the order in which they were logged
LoggedWith(taskId) == RowsToEvents(SelectSeq(sink, LAMBDA row : row.task_id = taskId))

\* the timestamps of successive events never decrease
Ascending(h) == \A p, q \in DOMAIN h : p < q => h[p].timestamp <= h[q].timestamp

(* C17, as stated: getTaskHistory(taskId) returns exactly the events logged
   with that taskId, in the order in which they were logged, for every
   sequence of logEvent calls. *)
C17_HistoryInLoggedOrder ==
    \A t \in StoreTaskIds : GetTaskHistory(t) = LoggedWith(t)

(* C17, amended: getTaskHistory(taskId) returns exactly the events logged with
   that taskId, each once, ordered by timestamp ascending, events of equal
   timestamp in the order in which they were logged; that is the logged order
   whenever the clock did not go back between the logEvent calls. *)
C17_HistoryByTimestamp ==
    \A t \in StoreTaskIds :
       LET h == GetTaskHistory(t)
           logged == LoggedWith(t)
       IN  /\ Len(h) = Len(logged)
           /\ Range(h) = Range(logged)
           /\ Ascending(h)
           /\ \A p, q \in DOMAIN h :
                 (p < q /\ h[p].timestamp = h[q].timestamp)
                    => h[p].payload.step < h[q].payload.step
           /\ Ascending(logged) => h = logged

\* three events of one task, the first two logged at the same clock reading
C17_Witness ==
    \E t \in StoreTaskIds :
       LET h == GetTaskHistory(t)
       IN  /\ Len(h) = 3
           /\ h[1].timestamp = h[2].timestamp
           /\ h[2].timestamp < h[3].timestamp
           /\ h = LoggedWith(t)

\* a stored row matches every field the filter gives
MatchesGiven(row, filter) ==
    /\ filter.type # None => row.type = filter.type
    /\ filter.taskId # None => row.task_id = filter.taskId
    /\ filter.executorType # None => row.executor_type = filter.executorType

(* C18: getEvents(filter) returns exactly the stored events that match every
   field given in the filter (type, taskId, executorType), each once: every
   returned event matches, no stored matching event is missing, and with no
   filter every stored event is returned. *)
C18_ExactlyTheMatching ==
    \A filter \in Filters :
       LET matching == SelectSeq(sink, LAMBDA row : MatchesGiven(row, filter))
       IN  /\ Len(GetEvents(filter)) = Len(matching)
           /\ Range(GetEvents(filter)) = Range(RowsToEvents(matching))

\* getEvents() without a filter
NoFilter == [type |-> None, taskId |-> None, executorType |-> None]

IsPrefix(s, t) == Len(s) <= Len(t) /\ SubSeq(t, 1, Len(s)) = s

(* C19: after clear(), getEvents() with no filter returns the empty sequence
   whatever was logged before; and every step of dispatch and dispatchAll
   leaves the stored events as they are and at most appends to them. *)
C19_ClearEmptiesCoreOnlyAppends ==
    [][/\ Clear => GetEvents(NoFilter)' = <<>>
       /\ ~Clear => IsPrefix(sink, sink')]_vars

\* the log was cleared after a dispatch had logged events, and the dispatch has
\* appended to the cleared log since
C19_Witness ==
    \E i \in DOMAIN frames :
       /\ sink # <<>>
       /\ Len(sink) < Len(frames[i].log)
       /\ Len(frames) = 1

(* C20: after any sequence of useMemory and useExecutor calls, execute(prompt)
   raises 'Orpheus not ready' if and only if no memory store or no executor
   was registered before the call; once both are registered, in either order,
   execute creates the plan and dispatches every task of it. *)
C20_NotReadyIffUnregistered ==
    /\ orpheus.executed.called =>
          (orpheus.executed.error = NotReadyError
             <=> (orpheus.executed.memory = Null \/ orpheus.executed.executors = <<>>))
    /\ call.mode = "planning" => tasks # <<>>
    /\ call.mode \in {"sequential", "parallel"} =>
          /\ Range(call.tasks) = DOMAIN tasks
          /\ \A t \in DOMAIN tasks : tasks[t].status # "pending"

\* execute raised with a memory store registered and no executor
C20_Witness ==
    /\ orpheus.executed.called
    /\ orpheus.executed.error = NotReadyError
    /\ orpheus.executed.memory # Null

(* C21: for each backend adapter, execute never raises: any error of the
   provider call gives an outcome with success = false, the adapter's own
   executor id, the captured error message and a durationMs value; and
   isAvailable never raises: any error gives false. *)
C21_AdaptersNeverRaise ==
    \A e \in DOMAIN adapters :
       LET a == adapters[e]
           failed == a.settlement.kind # "response"
       IN  a.pc = "settled" =>
              /\ a.result.settled = "fulfilled"
              /\ a.op = "execute" /\ failed =>
                    /\ ~a.result.success
                    /\ a.result.executor = e
                    /\ a.result.error \in STRING
                    /\ a.settlement.err.instanceOfError =>
                          a.result.error = a.settlement.err.message
                    /\ a.result.durationMs \in Int
              /\ a.op = "isAvailable" /\ failed => ~a.result.available

\* execute of one adapter has answered a rejection with a value that is not an
\* Error, and isAvailable of another has answered a rejection
C21_Witness ==
    \E e, g \in DOMAIN adapters :
       /\ adapters[e].pc = "settled" /\ adapters[e].op = "execute"
       /\ adapters[e].settlement.kind = "rejects"
       /\ ~adapters[e].settlement.err.instanceOfError
       /\ adapters[e].result.error = "503"
       /\ adapters[g].pc = "settled" /\ adapters[g].op = "isAvailable"
       /\ adapters[g].settlement.kind = "rejects"

\* the plan that createPlan has just handed back to execute
PlanOf(prompt) == call.mode = "planning" /\ orpheus.executed.prompt = prompt

(* C22: createPlan returns a plan of exactly one pending task whose
   preferredExecutor is 'codex' for every prompt that contains a code keyword,
   'gemini' for every prompt that contains a research/multimodal keyword, and
   'sonnet' for a prompt that contains neither. *)
C22_RoutedByKeyword ==
    \A prompt \in Prompts :
       PlanOf(prompt) =>
          /\ Len(tasks) = 1
          /\ tasks[1].status = "pending"
          /\ MatchesPatterns(prompt, CodePatterns) => tasks[1].preferredExecutor = "codex"
          /\ MatchesPatterns(prompt, ResearchPatterns) =>
                tasks[1].preferredExecutor = "gemini"
          /\ ~MatchesPatterns(prompt, CodePatterns \cup ResearchPatterns) =>
                tasks[1].preferredExecutor = "sonnet"

(* C22, amended: the code keywords come first: 'codex' for every prompt that
   contains a code keyword, 'gemini' for every prompt that contains a
   research/multimodal keyword and no code keyword, 'sonnet' for a prompt that
   contains neither; the plan has exactly one pending task. *)
C22_CodeKeywordsFirst ==
    \A prompt \in Prompts :
       PlanOf(prompt) =>
          /\ Len(tasks) = 1
          /\ tasks[1].status = "pending"
          /\ MatchesPatterns(prompt, CodePatterns) => tasks[1].preferredExecutor = "codex"
          /\ MatchesPatterns(prompt, ResearchPatterns)
                /\ ~MatchesPatterns(prompt, CodePatterns) =>
                tasks[1].preferredExecutor = "gemini"
          /\ ~MatchesPatterns(prompt, CodePatterns \cup ResearchPatterns) =>
                tasks[1].preferredExecutor = "sonnet"

\* a plan was made for a prompt with a code keyword and a research keyword
C22_Witness ==
    \E prompt \in Prompts :
       /\ PlanOf(prompt)
       /\ MatchesPatterns(prompt, CodePatterns)
       /\ MatchesPatterns(prompt, ResearchPatterns)
       /\ tasks[1].preferredExecutor = "codex"

\* the last event a dispatch has logged
LastLogged(f) == f.log[Len(f.log)]

(* C23: as soon as one try returns a successful outcome, all iteration stops:
   the dispatch stays at that plan entry and try, makes no further isAvailable
   or execute call and logs no further executor_called; the status of the task
   becomes completed, task_completed carries the winning backend and the
   attempt count, and dispatch returns that backend's outcome with the same
   attempt count.  The status is looked at for a task that is dispatched once. *)
C23_SuccessStopsIteration ==
    \A i \in DOMAIN frames :
       LET f == frames[i]
           k == f.firstSuccess[1]
           j == f.firstSuccess[2]
           before == f.firstSuccess[3]
           tries == R * before + j
       IN  k > 0 =>
              /\ f.pc \in {"await_responded", "await_completed", "returned"}
              /\ f.idx = k /\ f.attempt = j
              /\ f.attempts = tries /\ f.execs = tries
              /\ Len(OfType(f.log, "executor_called")) <= tries
              /\ f.pc \in {"await_completed", "returned"} /\ Occurrences(f.task) = 1 =>
                    tasks[f.task].status = "completed"
              /\ f.pc = "returned" =>
                    /\ LastLogged(f).type = "task_completed"
                    /\ LastLogged(f).payload = [executorType |-> f.order[k],
                                                attempts |-> tries]
                    /\ f.ret.result.success
                    /\ f.ret.result.executor = f.order[k]
                    /\ f.ret.attempts = tries

\* how many tries the dispatch has begun at plan position k: R at a position it
\* has left, the number of the current try at the position it is at
TriesAt(f, k) ==
    IF k \notin PassedAt(f) THEN 0
    ELSE IF k < f.idx THEN R
    ELSE f.attempt

RECURSIVE TriesInPlanOrder(_, _)
\* the tries begun from plan position k on, position by position: backend and
\* 1-based try number
TriesInPlanOrder(f, k) ==
    IF k > Len(f.order) THEN <<>>
    ELSE [a \in 1..TriesAt(f, k) |-> [executorType |-> f.order[k], attempt |-> a]]
            \o TriesInPlanOrder(f, k + 1)

\* the executor_called events a dispatch has logged
Called(f) == OfType(f.log, "executor_called")

\* the append of the last executor_called has failed
CalledAppendFailed(f) ==
    /\ f.rej
    /\ f.pc = "await_called" \/ (f.pc = "rejected" /\ f.idx \in DOMAIN f.order)

(* C24: backends are tried in exactly the plan's order: the backends named by
   the executor_called events of a dispatch are the plan's entries that were
   tried, in list order, the tries of one entry being consecutive (only the
   last event may be missing, when its append failed); dispatch leaves an entry
   that has begun tries after R tries or a success, and its position in the
   plan never moves back. *)
C24_TriedInPlanOrder ==
    /\ [](\A i \in DOMAIN frames :
            LET f == frames[i]
                tries == TriesInPlanOrder(f, 1)
                kept == IF CalledAppendFailed(f) THEN Len(tries) - 1 ELSE Len(tries)
            IN  f.pc # "idle" =>
                   /\ Len(Called(f)) = kept
                   /\ \A p \in 1..kept : Called(f)[p].executorType = tries[p].executorType)
    /\ [][\A i \in DOMAIN frames :
            (i \in DOMAIN frames' /\ frames[i].pc # "idle") =>
               /\ frames'[i].idx >= frames[i].idx
               /\ (frames'[i].idx > frames[i].idx /\ frames[i].attempt > 0) =>
                     frames[i].attempt = R]_vars

\* plan [A, B] with R = 2: A was tried twice, then B twice
C24_Witness ==
    \E i \in DOMAIN frames :
       LET f == frames[i]
       IN  /\ R = 2
           /\ Len(f.order) = 2
           /\ f.order[1] # f.order[2]
           /\ Len(Called(f)) = 4
           /\ f.pc = "returned"

\* the try that a dispatch has just made has failed: execute threw, or it
\* returned a failed outcome
TryFailed(f) ==
    \/ f.pc = "await_execute"
    \/ f.pc = "await_responded" /\ ~f.result.success

(* C25: backoff is linear and only between tries of the same backend: a
   dispatch begins to wait only after a failed try number t < R, for
   retryDelayMs * t, and then makes try t + 1 of the same backend; there is no
   wait after a backend's final try, none between two backends and none after
   a successful try. *)
C25_LinearBackoff ==
    [][\A i \in DOMAIN frames :
          i \in DOMAIN frames' =>
             LET f == frames[i]
                 g == frames'[i]
             IN  /\ (g.pc = "await_delay" /\ f.pc # "await_delay") =>
                       /\ TryFailed(f)
                       /\ f.attempt < R
                       /\ g.idx = f.idx /\ g.attempt = f.attempt
                       /\ g.delayMs = options.retryDelayMs * f.attempt
                 /\ (f.pc = "await_delay" /\ g.pc # "await_delay") =>
                       /\ g.pc = "await_called"
                       /\ g.idx = f.idx /\ g.attempt = f.attempt + 1
                 /\ (g.pc # "await_delay") => g.delayMs = 0]_vars

(* C26: every execute call is preceded by an executor_called event for the
   same task and backend whose payload carries the 1-based try number for that
   backend: while execute runs, the last executor_called of the dispatch names
   the task, the backend and the try; the numbers for one plan entry are 1, 2,
   ... up to at most R and start again at 1 for the next entry, while the
   attempts total counts all of them. *)
C26_CalledBeforeExecute ==
    \A i \in DOMAIN frames :
       LET f == frames[i]
           tries == TriesInPlanOrder(f, 1)
           kept == IF CalledAppendFailed(f) THEN Len(tries) - 1 ELSE Len(tries)
       IN  f.pc # "idle" =>
              /\ f.attempts = Len(tries)
              /\ Len(Called(f)) = kept
              /\ \A p \in 1..kept :
                    /\ Called(f)[p].payload.attempt = tries[p].attempt
                    /\ Called(f)[p].payload.attempt \in 1..R
              /\ f.execs <= Len(Called(f))
              /\ f.pc = "await_execute" =>
                    /\ f.execs = Len(Called(f))
                    /\ Called(f)[f.execs] =
                          Event("executor_called", f.task, f.order[f.idx],
                                [attempt |-> f.attempt])

\* plan [A, B] with R = 2: execute of B runs for the second time, the events
\* carry the numbers 1, 2, 1, 2 and attempts is 4
C26_Witness ==
    \E i \in DOMAIN frames :
       LET f == frames[i]
       IN  /\ f.pc = "await_execute"
           /\ f.attempts = 4
           /\ Len(Called(f)) = 4
           /\ Called(f)[3].payload.attempt = 1
           /\ Called(f)[4].payload.attempt = 2

\* what dispatch does after a try that failed with the message `err`: the try
\* stays counted once, the message is kept, dispatch backs off before the next
\* try of the same backend or goes on behind it, and is not rejected
HandledAsFailure(f, g, err) ==
    /\ g.lastError = err
    /\ g.attempts = f.attempts
    /\ g.pc # "rejected"
    /\ IF f.attempt < R
       THEN /\ g.pc = "await_delay"
            /\ g.idx = f.idx /\ g.attempt = f.attempt
            /\ g.delayMs = options.retryDelayMs * f.attempt
       ELSE /\ g.pc \in {"await_available", "await_failed"}
            /\ g.idx > f.idx
            /\ g.pc = "await_failed" => g.result.error = err

(* C27: an execute call that throws is handled exactly like one that returns a
   failed outcome: it counts as one attempt, its message becomes the last
   captured error, the backend is tried again up to R tries with the same
   backoff, then dispatch falls through to the next backend; the error is not
   re-raised. *)
C27_ThrowIsAFailedTry ==
    [][\A i \in DOMAIN frames :
          i \in DOMAIN frames' =>
             LET f == frames[i]
                 g == frames'[i]
                 e == f.order[f.idx]
             IN  /\ (f.pc = "await_execute" /\ g.pc \notin {"await_execute", "await_responded"})
                       => HandledAsFailure(f, g, ThrownError(e, f.attempts))
                 /\ (f.pc = "await_responded" /\ g.pc # "await_responded"
                       /\ ~f.rej /\ ~f.result.success)
                       => HandledAsFailure(f, g, f.result.error)]_vars

\* plan [A, B] with R = 2: A threw twice, and B is being probed
C27_Witness ==
    \E i \in DOMAIN frames :
       LET f == frames[i]
       IN  /\ R = 2
           /\ f.pc = "await_available"
           /\ f.idx = 2
           /\ f.attempts = 2
           /\ f.lastError = ThrownError(f.order[1], 2)
           /\ Len(OfType(f.log, "executor_responded")) = 0

\* the events of the given type that a dispatch has handed to logEvent
Emitted(f, type) == OfType(f.emitted, type)

(* C28: at every point of a dispatch, and in the returned result, attempts
   equals the number of tries begun, which is the number of executor_called
   events the dispatch has emitted for the task; a skipped backend never
   changes it; and the attempts value in the payload of each task_completed or
   task_failed event the dispatch has emitted equals the attempts of the
   returned result. *)
C28_AttemptsCountTries ==
    /\ [](\A i \in DOMAIN frames :
            LET f == frames[i]
                terminal == Emitted(f, "task_completed") \o Emitted(f, "task_failed")
            IN  f.pc # "idle" =>
                   /\ f.attempts = Len(Emitted(f, "executor_called"))
                   /\ f.attempts = Len(TriesInPlanOrder(f, 1))
                   /\ f.pc = "returned" =>
                         /\ f.ret.attempts = f.attempts
                         /\ \A p \in DOMAIN terminal :
                               terminal[p].payload.attempts = f.ret.attempts)
    /\ [][\A i \in DOMAIN frames :
            (i \in DOMAIN frames' /\ frames'[i].skips # frames[i].skips
               /\ frames[i].pc # "idle") =>
               frames'[i].attempts = frames[i].attempts]_vars

\* how often backend e is listed
Multiplicity(list, e) == Cardinality({p \in DOMAIN list : list[p] = e})

(* C29: a backend that occurs more than once in the plan is tried again at its
   later position: it is probed again there and gets R fresh tries, so when
   every listed backend is registered, passes every probe and fails every try,
   a backend listed m times accounts for m * R attempts and the result has
   R * (length of the list) attempts. *)
C29_DuplicateTriedAgain ==
    \A i \in DOMAIN frames :
       LET f == frames[i]
           list == tasks[f.task].fallbackExecutors
       IN  (/\ f.pc = "returned"
            /\ list # <<>>
            /\ f.firstSuccess = <<0, 0, 0>>
            /\ f.skips = {}
            /\ Range(list) \subseteq Range(executors)) =>
              /\ f.probes = Len(list)
              /\ f.ret.attempts = R * Len(list)
              /\ \A e \in Range(list) :
                    Len(SelectSeq(Called(f), LAMBDA ev : ev.executorType = e))
                       = R * Multiplicity(list, e)

\* plan [A, A] with R = 2: A failed four times
C29_Witness ==
    \E i \in DOMAIN frames :
       LET f == frames[i]
           list == tasks[f.task].fallbackExecutors
       IN  /\ f.pc = "returned"
           /\ R = 2
           /\ Len(list) = 2 /\ list[1] = list[2]
           /\ f.skips = {}
           /\ f.firstSuccess = <<0, 0, 0>>
           /\ f.ret.attempts = 4

\* the fields of a Task that dispatch may write
Written(task, status, updatedAt) ==
    [task EXCEPT !.status = status, !.updatedAt = updatedAt]

(* C30: dispatch changes nothing but the task's status and updatedAt and the
   sink: in every step of dispatch and dispatchAll the tasks are the same
   objects with the same id, prompt, systemPrompt, preferredExecutor,
   fallbackExecutors, priority, parentId and metadata, and the retry options
   and the executor registry are untouched. *)
C30_OnlyStatusAndSink ==
    [][/\ DOMAIN tasks' = DOMAIN tasks
       /\ \A t \in DOMAIN tasks :
             tasks'[t] = Written(tasks[t], tasks'[t].status, tasks'[t].updatedAt)
       /\ options' = options
       /\ executors' = executors]_vars

\* a dispatch has returned after its task went through running to failed, and
\* the task still has the plan it was made with
C30_Witness ==
    \E i \in DOMAIN frames :
       LET f == frames[i]
       IN  /\ f.pc = "returned"
           /\ tasks[f.task].status = "failed"
           /\ tasks[f.task].preferredExecutor = None
           /\ Len(tasks[f.task].fallbackExecutors) = 2
           /\ f.order = tasks[f.task].fallbackExecutors
           /\ f.attempts > 0

\* dispatch number i returns in this step
Returns(i) ==
    /\ i \in DOMAIN frames /\ i \in DOMAIN frames'
    /\ frames[i].pc # "returned"
    /\ frames'[i].pc = "returned"

(* C31: whenever dispatch returns, the task inside the result has the terminal
   status that matches the outcome: completed if result.success is true,
   failed otherwise; never pending or running. *)
C31_StatusMatchesOutcome ==
    [][\A i \in Slots :
          Returns(i) =>
             tasks'[frames'[i].task].status =
                IF frames'[i].ret.result.success THEN "completed" ELSE "failed"]_vars

\* the dispatch ran out of plan entries and built its failure result
Exhausted(f) ==
    /\ f.pc \in {"await_failed", "returned", "rejected"}
    /\ f.result # NoResult
    /\ f.idx > Len(f.order)

\* the task_failed event the dispatch handed to logEvent
TaskFailed(f) == f.emitted[Len(f.emitted)]

(* C32: on exhaustion the error of the returned failure outcome and the error
   in the task_failed payload are the same value: the last error observed
   during the dispatch (of a failed outcome or of a throw in any try) if one
   was observed, the generic 'All executors failed' only if none was. *)
C32_LastObservedError ==
    \A i \in DOMAIN frames :
       LET f == frames[i]
       IN  Exhausted(f) =>
              /\ TaskFailed(f).type = "task_failed"
              /\ TaskFailed(f).payload.error = f.result.error
              /\ f.result.error =
                    IF f.observed # NoError THEN f.observed ELSE AllFailedError
              /\ f.pc = "returned" => f.ret.result.error = f.result.error

\* the dispatch is suspended in a call of its backend
InExecute(f) == f.pc = "await_execute"

InBackendCall(f) == f.pc \in {"await_available", "await_execute"}

(* C33: for one task the dispatcher performs one backend call at a time:
   between an execute call for the task and the return or throw of that call
   no other isAvailable or execute call is made for the same task, also when
   the task is one of several dispatched concurrently. *)
C33_OneBackendCallPerTask ==
    \A i, j \in DOMAIN frames :
       (/\ i # j
        /\ frames[i].task = frames[j].task
        /\ InExecute(frames[i])) => ~InBackendCall(frames[j])

\* the list holds every element of the set exactly once
IsPermutation(list, set) ==
    /\ Len(list) = Cardinality(set)
    /\ Range(list) = set

(* C34: every task built by Planner.createTask has a fallbackExecutors list
   that is non-empty and free of duplicates: a permutation of the three
   executor types sonnet, codex, gemini. *)
C34_FallbackIsPermutation ==
    \A t \in DOMAIN tasks :
       /\ tasks[t].fallbackExecutors # <<>>
       /\ IsPermutation(tasks[t].fallbackExecutors, ExecutorTypes)

\* tasks were built for a preferred executor that is not first in the default
\* order, and for no preferred executor
C34_Witness ==
    /\ \E t \in DOMAIN tasks : tasks[t].fallbackExecutors = <<"gemini", "sonnet", "codex">>
    /\ \E t \in DOMAIN tasks :
          /\ tasks[t].fallbackExecutors = <<"sonnet", "codex", "gemini">>
          /\ tasks[t].preferredExecutor = "gemini"

(* C35: for every task built by Planner.createTask, with or without an
   explicit preferredExecutor and for every configured defaultExecutor, the
   first entry of fallbackExecutors equals the task's preferredExecutor. *)
C35_PreferredIsFirst ==
    \A t \in DOMAIN tasks :
       tasks[t].fallbackExecutors[1] = tasks[t].preferredExecutor

\* the dispatch has built its executor priority list
HasPlan(f) == f.idx >= 1

\* the dispatch has begun a try of backend e
Tried(f, e) == \E k \in DOMAIN f.emitted :
                  /\ f.emitted[k].type = "executor_called"
                  /\ f.emitted[k].executorType = e

(* C36: the plan a dispatch uses is the task's fallbackExecutors when that list
   is non-empty, otherwise the single preferredExecutor when one is set,
   otherwise all registered executors in registration order; so a
   preferredExecutor that is absent from a non-empty fallbackExecutors list is
   never tried. *)
C36_PlanOfDispatch ==
    \A i \in DOMAIN frames :
       LET f == frames[i]
           list == tasks[f.task].fallbackExecutors
           preferred == tasks[f.task].preferredExecutor
       IN  HasPlan(f) =>
              /\ list # <<>> => f.order = list
              /\ (list = <<>> /\ preferred # None) => f.order = <<preferred>>
              /\ (list = <<>> /\ preferred = None) => f.order = executors
              /\ (list # <<>> /\ preferred \notin Range(list)) => ~Tried(f, preferred)
              /\ \A e \in ExecutorTypes : Tried(f, e) => e \in Range(f.order)

\* a dispatch has gone through the whole of a non-empty list that lacks the
\* task's preferred executor, which is registered, and has made tries
C36_Witness ==
    \E i \in DOMAIN frames :
       LET f == frames[i]
           list == tasks[f.task].fallbackExecutors
           preferred == tasks[f.task].preferredExecutor
       IN  /\ f.pc = "returned"
           /\ ~f.ret.result.success
           /\ f.attempts >= 1
           /\ list # <<>>
           /\ preferred # None
           /\ preferred \notin Range(list)
           /\ preferred \in Range(executors)

\* the dispatch has set the status of its task to completed
SetCompleted(f) == Emitted(f, "task_completed") # <<>>

\* dispatch number i takes this step
Steps(i) ==
    /\ i \in DOMAIN frames /\ i \in DOMAIN frames'
    /\ frames'[i] # frames[i]

(* C37: within one dispatch, once the status of the task has been set to
   completed, that dispatch makes no further execute call and does not change
   the status again, also when a sink append fails after the successful
   backend call. *)
C37_CompletedIsFinal ==
    [][\A i \in Slots :
          (Steps(i) /\ SetCompleted(frames[i])) =>
             /\ frames'[i].execs = frames[i].execs
             /\ tasks'[frames[i].task].status = tasks[frames[i].task].status]_vars

\* the plan positions the dispatch has reached whose backend is registered
ReachedAt(f) == {k \in RegisteredAt(f) : k <= f.idx}

(* C38: availability is probed exactly once per plan position the dispatch
   reaches (and whose backend is registered), before the first try of that
   position, and not again between retries: a backend that passed its probe
   gets up to R execute calls without a further isAvailable call. *)
C38_ProbedOncePerPosition ==
    /\ [](\A i \in DOMAIN frames :
            LET f == frames[i]
            IN  HasPlan(f) =>
                   /\ f.probes = Cardinality(ReachedAt(f))
                   /\ f.attempt <= R
                   /\ f.execs <= R * f.passed)
    /\ [][\A i \in Slots :
            Steps(i) =>
               \* a probe is made only on arrival at a position, before any try
               /\ frames'[i].probes # frames[i].probes =>
                     /\ frames'[i].probes = frames[i].probes + 1
                     /\ frames'[i].idx # frames[i].idx
                     /\ frames'[i].pc = "await_available"
                     /\ frames'[i].attempt = 0
               \* the first try follows the probe, a retry follows the backoff
               /\ (frames'[i].attempt = 1 /\ frames[i].attempt = 0) =>
                     frames[i].pc = "await_available"
               /\ frames'[i].attempt > 1 /\ frames'[i].attempt # frames[i].attempt =>
                     /\ frames[i].pc = "await_delay"
                     /\ frames'[i].probes = frames[i].probes]_vars

\* the second backend of a plan has passed its one probe and is in its R-th try,
\* R > 1, after R tries of the first
C38_Witness ==
    \E i \in DOMAIN frames :
       LET f == frames[i]
       IN  /\ R > 1
           /\ f.pc = "await_execute"
           /\ f.idx = 2 /\ f.attempt = R
           /\ f.probes = 2 /\ f.passed = 2
           /\ f.execs = 2 * R

\* the entries of the batch up to entry i
DispatchedUpTo(i) == {call.tasks[k] : k \in 1..i}

(* C39: in sequential mode, if the dispatch of task i raises (for example on a
   sink failure), dispatchAll raises at once: the tasks after i are never
   dispatched, keep status pending and emit no event, and the results already
   obtained for the tasks before i are not returned. *)
C39_SequentialRaisesAtOnce ==
    /\ [](call.mode = "sequential" =>
            \A i \in DOMAIN frames :
               frames[i].pc = "rejected" =>
                  /\ call.i = i
                  /\ call.state \in {"pending", "rejected"}
                  /\ call.state = "pending" => ENABLED SequentialRejects
                  /\ Len(call.results) = i - 1
                  /\ \A j \in DOMAIN frames :
                        j > i =>
                           /\ frames[j] = IdleFrame(call.tasks[j])
                           /\ call.tasks[j] \notin DispatchedUpTo(i) =>
                                 /\ tasks[call.tasks[j]].status = "pending"
                                 /\ GetTaskHistory(TaskId(call.tasks[j])) = <<>>)
    /\ [][(call.mode = "sequential" /\ call.state = "pending"
            /\ frames[call.i].pc = "rejected") => call'.state = "rejected"]_vars

\* the dispatch of the first of two tasks has raised after a try, dispatchAll has
\* raised, and the second task is untouched
C39_Witness ==
    /\ call.mode = "sequential"
    /\ call.state = "rejected"
    /\ call.tasks = <<1, 2>>
    /\ frames[1].pc = "rejected"
    /\ frames[1].attempts >= 1
    /\ frames[2].pc = "idle"
    /\ tasks[2].status = "pending"

\* dispatch number i moves to another plan position, or behind the last
Advances(i) == Steps(i) /\ frames'[i].idx # frames[i].idx

(* C40: a dispatch resolves each backend against the registry at the moment it
   reaches that plan position, and the registry Map is shared by reference: an
   executor registered while the dispatch is suspended in a backend call or a
   backoff wait is the one the same dispatch uses for every plan position it
   reaches afterwards. *)
C40_ResolvedOnArrival ==
    [][\A i \in Slots :
          LET f == frames[i]
              g == frames'[i]
          IN  /\ Advances(i) =>
                    \* the entries passed over are those the Map lacks now
                    /\ \A m \in (f.idx + 1)..(g.idx - 1) :
                          g.order[m] \notin Range(executors)
                    /\ g.idx \in DOMAIN g.order =>
                          /\ g.order[g.idx] \in Range(executors)
                          /\ g.executor.type = g.order[g.idx]
                          /\ g.executor.object = orpheus.objects[g.order[g.idx]]
              \* within a position the dispatch keeps the object it has
              /\ (Steps(i) /\ ~Advances(i) /\ f.pc # "idle") => g.executor = f.executor]_vars

\* the dispatch is in a try of its second plan position with an executor object
\* that was registered while it was suspended at the first position
C40_Witness ==
    \E i \in DOMAIN frames :
       LET f == frames[i]
       IN  /\ f.pc = "await_execute"
           /\ f.idx = 2
           /\ f.passed = 2
           /\ f.executor.object = 1
           /\ orpheus.objects[f.order[2]] = 1

====
